---- MODULE Spec2Model ----
(***************************************************************************)
(* State-machine model of DeadlineScheduler (src/src/scheduler_deadline.py)*)
(* of bbanks15/AUFalkon: the per-tick decision engine (schedule_tick), the  *)
(* fault API and the battery model.                                        *)
(*                                                                         *)
(* Numbers.  battery_pct, the thresholds and the drains are percentage     *)
(* points.  The configurations below make 100 * tick_ms / battery_life_ms  *)
(* an even integer and the weights integers, so that every float of the    *)
(* source is an integer here and the arithmetic is exact.  A score is the  *)
(* source's score multiplied by 100 * rotation_ticks.                      *)
(***************************************************************************)
EXTENDS Integers, Sequences, FiniteSets, TLC

(***************************************************************************)
(* Bounds of the exploration.                                              *)
(***************************************************************************)
MaxTick == 3
MaxFaultCalls == 1
\* the length of the deadline-failure run (scenario 3)
Scenario3MaxTick == 16
\* the length of the contingency-doubling run (scenario 6)
Scenario6MaxTick == 8
\* the length of the runs that cross several rotation boundaries
RotationMaxTick == 5

(***************************************************************************)
(* The fleet and the domains of the missions explored.                     *)
(***************************************************************************)
Units == {"u1", "u2", "u3"}
UnitRank == [u \in Units |-> CASE u = "u1" -> 1 [] u = "u2" -> 2 [] OTHER -> 3]

\* ---- sequence helpers (Python list idioms) ------------------------------
SeqToSet(s) == {s[i] : i \in 1..Len(s)}
InSeq(x, s) == \E i \in 1..Len(s) : s[i] = x
Put(f, k, v) == [x \in (DOMAIN f) \cup {k} |-> IF x = k THEN v ELSE f[x]]
Drop(f, ks) == [x \in (DOMAIN f) \ ks |-> f[x]]
RECURSIVE SumOver(_, _)
SumOver(S, f) == IF S = {} THEN 0
                 ELSE LET x == CHOOSE y \in S : TRUE IN f[x] + SumOver(S \ {x}, f)
Max2(x, y) == IF x >= y THEN x ELSE y
Min2(x, y) == IF x <= y THEN x ELSE y

\* sorted(list of units) : ascending unit id
RECURSIVE InsertByRank(_, _)
InsertByRank(u, s) ==
  IF s = <<>> THEN <<u>>
  ELSE IF UnitRank[u] < UnitRank[Head(s)] THEN <<u>> \o s
       ELSE <<Head(s)>> \o InsertByRank(u, Tail(s))
RECURSIVE SortedUnits(_)
SortedUnits(S) ==
  IF S = {} THEN <<>>
  ELSE LET u == CHOOSE x \in S : \A y \in S : UnitRank[x] >= UnitRank[y]
       IN Append(SortedUnits(S \ {u}), u)


(***************************************************************************)
(* Configuration: the constructor's arguments (__init__).  A run starts    *)
(* from one of Configs and never changes it.                               *)
(***************************************************************************)
\* __init__: first domain whose lower-cased name is 'rest'
rest_domain == "rest"

battery_reserve_pct == 15
rotation_weight == 40
cooldown_weight == 60
keep_bonus == 35

NoPools == [a |-> <<>>, b |-> <<>>, spares |-> <<>>]
\* u2 is both in pool[a] and in the spares
PoolsSpares == [a |-> <<"u1", "u2">>, b |-> <<"u3">>, spares |-> <<"u2", "u3">>]
\* u1 is the only unit of pool[b] and is also in pool[a]
PoolsNarrow == [a |-> <<"u1", "u2">>, b |-> <<"u1">>, spares |-> <<>>]
\* a mission whose pool for b names a unit that does not exist
PoolsUnknownUnit == [a |-> <<"u1", "u2">>, b |-> <<"u9", "u3">>, spares |-> <<"u2">>]
WeightsOne == [a |-> 1, b |-> 1, rest |-> 1]
WeightsTwo == [a |-> 2, b |-> 1, rest |-> 2]

\* DeadlineScheduler(domains, pools, required_map, max_gap_ticks, tick_ms, ...)
Config(c, r, g, p, w, s, h, th) ==
  [ domains                |-> <<"a", "b", "rest">>,
    capacity_per_unit      |-> c,
    required_map           |-> r,
    max_gap_ticks          |-> g,
    tick_ms                |-> 1,
    battery_life_ms        |-> 5,
    universal_roles        |-> p = NoPools,
    pools                  |-> p,
    domain_weights         |-> w,
    strict_mission_failure |-> s,
    hysteresis_pct         |-> h,
    swap_threshold_pct     |-> th,
    rotation_period_ms     |-> 3,
    min_dwell_ticks        |-> 2,
    sample_every_ticks     |-> 2 ]

\* the missions explored
Configs ==
  { Config(2, [a |-> 1, b |-> 1], 2, NoPools,     WeightsTwo, TRUE,  80, 10),
    Config(1, [a |-> 2, b |-> 1], 1, NoPools,     WeightsOne, TRUE,  8,  10),
    Config(2, [a |-> 2, b |-> 1], 1, PoolsSpares, WeightsTwo, FALSE, 50, 20),
    Config(1, [a |-> 1, b |-> 1], 1, PoolsNarrow, WeightsOne, TRUE,  8,  10),
    Config(2, [a |-> 1, b |-> 0], 2, NoPools,     WeightsOne, TRUE,  8,  10),
    Config(2, [a |-> 2, b |-> 1], 1, NoPools,     WeightsOne, FALSE, 8,  20) }

\* the alive maps a driver may pass: all up, u1 down, u3 down, only u1 up,
\* and a map that leaves u3 out (u2 down)
AliveMaps ==
  { [u \in Units |-> TRUE],
    [u \in Units |-> u # "u1"],
    [u \in Units |-> u # "u3"],
    [u \in Units |-> u = "u1"],
    [u \in {"u1", "u2"} |-> u = "u1"] }
\* the durations a fault injector may pass (ms)
FaultDurations == {2}
\* the (unit, domain) pairs a fault injector may name
FaultTargets == { <<"u1", "a">>, <<"u2", "b">> }

VARIABLES
  cfg,                      \* constructor arguments
  tick,                     \* self.tick
  last_service_tick,        \* self.last_service_tick
  prev_assign,              \* self.prev_assign
  last_assign_map,          \* self.last_assign_map
  rest_units,               \* self.rest_units
  events,                   \* self.events (the events of the last call)
  battery_pct,              \* self.battery_pct (a dict: its DOMAIN grows)
  battery_dead,             \* self.battery_dead
  domain_faults,            \* self._domain_faults
  last_rotation_ms,         \* self._last_rotation_ms
  last_assigned_tick,       \* self._last_assigned_tick
  active_since_tick,        \* self._active_since_tick
  resting_since_tick,       \* self._resting_since_tick
  unmet_requirements_streak,\* self._unmet_requirements_streak
  alive,                    \* argument of the last schedule_tick call
  assignments,              \* local 'assignments' of the last call
  assign_map,               \* local 'assign_map' of the last call
  raised,                   \* how the last call ended: "none", "streak", "gap"
  timeline,                 \* rows (domain, units) the last call wrote to timeline.csv
  strict_list,              \* local 'strict' of the last call, per domain (line 487)
  override_list,            \* local 'override' of the last call, per domain (line 488)
  ticks_multi_role,         \* self._ticks_multi_role
  samples,                  \* the sample block the last call wrote (battery_samples.csv,
                            \* assignment_samples.csv); empty when it wrote none
  fault_calls,              \* number of set_domain_fault calls made (bounded)
  last_call                 \* the method called last: "none" after construction

vars == << cfg, tick, last_service_tick, prev_assign, last_assign_map,
           rest_units, events, battery_pct, battery_dead, domain_faults,
           last_rotation_ms, last_assigned_tick, active_since_tick,
           resting_since_tick, unmet_requirements_streak, alive,
           assignments, assign_map, raised, timeline, strict_list,
           override_list, ticks_multi_role, samples, fault_calls, last_call >>

EmptyMap == [x \in {} |-> 0]
\* __init__: self.domains = list(domains)
domains == cfg.domains
\* __init__: domains_active = [d for d in domains if d != rest_domain]
domains_active == SelectSeq(domains, LAMBDA d : d # rest_domain)
DomainsActiveSet == SeqToSet(domains_active)
DomainSet == SeqToSet(domains)
\* {d: [] for d in self.domains}
EmptyAssign == [d \in DomainSet |-> <<>>]

\* ---- public helpers ------------------------------------------------------
\* time_ms = int(round(self.tick * self.tick_ms))   (tick_ms integral here)
time_ms(t) == t * cfg.tick_ms

\* required_map.get(d, 1)
Required(d) == IF d \in DOMAIN cfg.required_map THEN cfg.required_map[d] ELSE 1

\* _total_required_roles
total_required_roles == SumOver(DomainsActiveSet, [d \in DomainsActiveSet |-> Required(d)])

\* ---- battery -------------------------------------------------------------
\* self.swap_threshold_pct
swap_threshold_pct == cfg.swap_threshold_pct

\* _ensure_battery_initialized
ensure_battery_initialized(bat, units) ==
  [u \in (DOMAIN bat) \cup units |-> IF u \in DOMAIN bat THEN bat[u] ELSE 100]

\* battery_pct.get(u, 0.0)
BatGet(bat, u) == IF u \in DOMAIN bat THEN bat[u] ELSE 0

drain_per_role_pct == (100 * cfg.tick_ms) \div cfg.battery_life_ms
\* variant: recharge as fast as one role drains
recharge_pct_full == drain_per_role_pct
recharge_pct == drain_per_role_pct \div 2

\* alive.get(u, False)
AliveGet(al, u) == u \in DOMAIN al /\ al[u]

\* variant: a dead unit counts as alive again when the map says so
is_alive_ignores_dead(u, al) == AliveGet(al, u)
is_alive(u, al) == AliveGet(al, u) /\ u \notin battery_dead
\* variant: liveness is not consulted
can_assign_ignores_alive(u, al, bat) == BatGet(bat, u) > 0
can_assign(u, al, bat) == is_alive(u, al) /\ BatGet(bat, u) > 0

wake_threshold_pct == Min2(100, battery_reserve_pct + cfg.hysteresis_pct)


\* ---- fault API -----------------------------------------------------------
\* variant: the fault still holds on the tick at which it should recover
domain_fault_active_inclusive(u, d, now_ms, faults) ==
  /\ <<u, d>> \in DOMAIN faults
  /\ \/ faults[<<u, d>>].permanent
     \/ now_ms <= faults[<<u, d>>].recover_at

\* variant: a permanent entry is treated like an expired temporary one
domain_fault_active_temporary_only(u, d, now_ms, faults) ==
  /\ <<u, d>> \in DOMAIN faults
  /\ ~faults[<<u, d>>].permanent
  /\ now_ms < faults[<<u, d>>].recover_at

\* _domain_fault_active (its result; the pop of an expired entry is FaultsPop)
domain_fault_active(u, d, now_ms, faults) ==
  /\ <<u, d>> \in DOMAIN faults
  /\ \/ faults[<<u, d>>].permanent
     \/ now_ms < faults[<<u, d>>].recover_at

\* ---- EDF/LLF ordering helpers -------------------------------------------
deadline(d, lst) == lst[d] + cfg.max_gap_ticks
slack(d, lst, t) == deadline(d, lst) - t

\* key (deadline, slack) of sorted(): d1 strictly before d2
DomainKeyLess(d1, d2, lst, t) ==
  \/ deadline(d1, lst) < deadline(d2, lst)
  \/ /\ deadline(d1, lst) = deadline(d2, lst)
     /\ slack(d1, lst, t) < slack(d2, lst, t)

\* sorted() is stable: an element goes after the elements not greater than it
RECURSIVE InsertDomain(_, _, _, _)
InsertDomain(d, s, lst, t) ==
  IF s = <<>> THEN <<d>>
  ELSE IF DomainKeyLess(d, Head(s), lst, t) THEN <<d>> \o s
       ELSE <<Head(s)>> \o InsertDomain(d, Tail(s), lst, t)
RECURSIVE SortDomains(_, _, _)
SortDomains(ds, lst, t) ==
  IF ds = <<>> THEN <<>>
  ELSE InsertDomain(ds[Len(ds)], SortDomains(SubSeq(ds, 1, Len(ds) - 1), lst, t), lst, t)

\* ---- rotation / scoring --------------------------------------------------
\* _is_rotation_tick, at tick t
is_rotation_tick(t) ==
  cfg.rotation_period_ms > 0 /\ (time_ms(t) - last_rotation_ms) >= cfg.rotation_period_ms

rotation_ticks == Max2(1, cfg.rotation_period_ms \div cfg.tick_ms)

\* t - last_assigned_tick.get(u, -10**9), capped at rotation_ticks
\* (cooldown_age_norm * rotation_ticks)
cooldown_age_norm(u, lat, t) ==
  IF u \in DOMAIN lat THEN Min2(rotation_ticks, Max2(0, t - lat[u])) ELSE rotation_ticks

recent_active_flag(u, lat, t) == IF u \in DOMAIN lat /\ lat[u] = t - 1 THEN 1 ELSE 0

dwell_ok(u, t) ==
  IF u \in DOMAIN active_since_tick THEN (t - active_since_tick[u]) >= cfg.min_dwell_ticks ELSE TRUE

\* _score_unit, times 100 * rotation_ticks
score_unit(u, prefer_keep, do_rotate, bat, lat, t) ==
  LET b == Max2(0, Min2(100, BatGet(bat, u)))
      recent_penalty == IF do_rotate THEN recent_active_flag(u, lat, t) ELSE 0
  IN b * rotation_ticks
     + cooldown_weight * cooldown_age_norm(u, lat, t)
     - rotation_weight * recent_penalty * rotation_ticks
     + (IF prefer_keep /\ ~do_rotate THEN keep_bonus * rotation_ticks ELSE 0)

\* sorted(cands, key=lambda u: (-score, u)), sc a function unit -> score
ScoreKeyLess(u, v, sc) == sc[u] > sc[v] \/ (sc[u] = sc[v] /\ UnitRank[u] < UnitRank[v])
RECURSIVE InsertByScore(_, _, _)
InsertByScore(u, s, sc) ==
  IF s = <<>> THEN <<u>>
  ELSE IF ScoreKeyLess(u, Head(s), sc) THEN <<u>> \o s
       ELSE <<Head(s)>> \o InsertByScore(u, Tail(s), sc)
RECURSIVE sort_by_score(_, _)
sort_by_score(cands, sc) ==
  IF cands = <<>> THEN <<>>
  ELSE InsertByScore(cands[Len(cands)], sort_by_score(SubSeq(cands, 1, Len(cands) - 1), sc), sc)

\* ---- candidate selection -------------------------------------------------
\* variant: the wake threshold is not consulted
CandidateOkNoHysteresis(u, d, al, bat, faults, now_ms, allow_override) ==
  /\ can_assign(u, al, bat)
  /\ ~domain_fault_active(u, d, now_ms, faults)

\* ok(u) of _candidates_for_domain
CandidateOk(u, d, al, bat, faults, now_ms, allow_override) ==
  /\ can_assign(u, al, bat)
  /\ ~domain_fault_active(u, d, now_ms, faults)
  /\ \/ allow_override
     \/ ~(u \in DOMAIN resting_since_tick /\ BatGet(bat, u) < wake_threshold_pct)

\* variant: the 'seen' filter is missing
DedupMissing(s) == s
\* the 'seen' loop of the pool-based fallback: first occurrences, in order
RECURSIVE Dedup(_)
Dedup(s) ==
  IF s = <<>> THEN <<>>
  ELSE LET r == Dedup(SubSeq(s, 1, Len(s) - 1))
       IN IF InSeq(s[Len(s)], r) THEN r ELSE Append(r, s[Len(s)])

\* variant: the pools are not consulted
candidates_ignoring_pools(d, al, units_all, bat, faults, now_ms, allow_override) ==
  LET ok(u) == CandidateOk(u, d, al, bat, faults, now_ms, allow_override)
  IN SelectSeq(units_all, ok)

candidates_for_domain(d, al, units_all, bat, faults, now_ms, allow_override) ==
  LET ok(u) == CandidateOk(u, d, al, bat, faults, now_ms, allow_override)
  IN IF cfg.universal_roles
     THEN SelectSeq(units_all, ok)
     ELSE LET spares == cfg.pools["spares"]
              primary == IF d \in DOMAIN cfg.pools THEN cfg.pools[d] ELSE <<>>
              prim_ok == SelectSeq(primary, ok)
              spare_ok == SelectSeq(spares, ok)
          IN Dedup(prim_ok \o spare_ok)

\* the units on which _candidates_for_domain evaluates ok(u)
CandidateSource(d, units_all) ==
  IF cfg.universal_roles THEN SeqToSet(units_all)
  ELSE SeqToSet(cfg.pools["spares"])
       \cup (IF d \in DOMAIN cfg.pools THEN SeqToSet(cfg.pools[d]) ELSE {})

\* side effect of _domain_fault_active under ok(u): an expired entry is popped
\* (reached only when _can_assign(u) held)
FaultsPop(d, al, units_all, bat, faults, now_ms) ==
  Drop(faults, { k \in DOMAIN faults :
                   /\ k[2] = d
                   /\ k[1] \in CandidateSource(d, units_all)
                   /\ can_assign(k[1], al, bat)
                   /\ ~faults[k].permanent
                   /\ now_ms >= faults[k].recover_at })


\* ---- logging helpers -----------------------------------------------------
\* ScheduleEvent(kind, detail): detail keeps the names the message carries
\* (domains or a unit) and msg tells the two mission_failure messages apart
Event(kind, detail, msg) == [kind |-> kind, detail |-> detail, msg |-> msg]
\* _emit_event: append to self.events (and to events.csv)
emit_event(evs, kind, detail, msg) == Append(evs, Event(kind, detail, msg))

\* ---- the five tiers ------------------------------------------------------
\* variant: the remaining capacity is not consulted
can_take_always(u, capacity) == TRUE
\* variant: the last unit of capacity is never given out
can_take_off_by_one(u, capacity) == capacity[u] > 1
\* can_take(u): capacity.get(u, 0) > 0
can_take(u, capacity) == capacity[u] > 0

\* variant: the loop does not stop when the need is covered
RECURSIVE TakeFromNoBreak(_, _, _, _, _, _)
TakeFromNoBreak(seq, ts, keep, keep_only, skip_chosen, mark_used) ==
  IF seq = <<>> THEN ts
  ELSE LET u == Head(seq)
           skip == \/ keep_only /\ u \notin keep
                   \/ skip_chosen /\ InSeq(u, ts.chosen)
                   \/ ~can_take(u, ts.capacity)
           taken == [ need       |-> ts.need - 1,
                      chosen     |-> Append(ts.chosen, u),
                      capacity   |-> [ts.capacity EXCEPT ![u] = @ - 1],
                      used_units |-> IF mark_used THEN ts.used_units \cup {u}
                                     ELSE ts.used_units ]
       IN TakeFromNoBreak(Tail(seq), IF skip THEN ts ELSE taken,
                          keep, keep_only, skip_chosen, mark_used)

\* One tier loop.  ts = [need, chosen, capacity, used_units];
\* keep_only: Tier A's 'u not in keep_candidates' test;
\* skip_chosen: Tier B's 'u in chosen' test; mark_used: used_units.add(u)
RECURSIVE TakeFrom(_, _, _, _, _, _)
TakeFrom(seq, ts, keep, keep_only, skip_chosen, mark_used) ==
  IF seq = <<>> \/ ts.need <= 0 THEN ts
  ELSE LET u == Head(seq)
           skip == \/ keep_only /\ u \notin keep
                   \/ skip_chosen /\ InSeq(u, ts.chosen)
                   \/ ~can_take(u, ts.capacity)
           taken == [ need       |-> ts.need - 1,
                      chosen     |-> Append(ts.chosen, u),
                      capacity   |-> [ts.capacity EXCEPT ![u] = @ - 1],
                      used_units |-> IF mark_used THEN ts.used_units \cup {u}
                                     ELSE ts.used_units ]
       IN TakeFrom(Tail(seq), IF skip THEN ts ELSE taken,
                   keep, keep_only, skip_chosen, mark_used)

\* Commit: for u in chosen: assignments.append((d, u)); assign_map[d].append(u)
RECURSIVE PairsOf(_, _)
PairsOf(d, chosen) ==
  IF chosen = <<>> THEN <<>> ELSE <<<<d, Head(chosen)>>>> \o PairsOf(d, Tail(chosen))

\* force_keep(u) of schedule_tick
force_keep(u, prev_active_set, bat, t) ==
  /\ u \in prev_active_set
  /\ ~dwell_ok(u, t)
  /\ BatGet(bat, u) > swap_threshold_pct

\* variant: no incumbent is a keep candidate
KeepCandidatesNone(d, override, do_rotate, prev_active_set, bat, t) == {}
\* keep_candidates of one domain
KeepCandidates(d, override, do_rotate, prev_active_set, bat, t) ==
  IF do_rotate THEN {}
  ELSE { u \in SeqToSet(prev_assign[d]) :
           /\ InSeq(u, override)
           /\ \/ force_keep(u, prev_active_set, bat, t)
              \/ BatGet(bat, u) > swap_threshold_pct }

\* The sorted partitions of one domain (lines 505-512), with what the tiers
\* read besides: the record c of the operators below.
DomainLists(d, need0, replaced, keep, st, override, unused_strict, used_strict, sc) ==
  LET uo(u) == u \notin st.used_units /\ ~InSeq(u, unused_strict)
      eo(u) == u \in st.used_units /\ ~InSeq(u, used_strict)
  IN [ d               |-> d,
       need0           |-> need0,
       replaced        |-> replaced,
       keep_candidates |-> keep,
       unused_strict   |-> unused_strict,
       used_strict     |-> used_strict,
       unused_override |-> sort_by_score(SelectSeq(override, uo), sc),
       used_override   |-> sort_by_score(SelectSeq(override, eo), sc) ]

\* lines 505-510: the scores of this domain and the strict partitions
DomainSorted(d, need0, replaced, keep, st, override, strict, sc) ==
  LET unused(u) == u \notin st.used_units
      used(u) == u \in st.used_units
  IN DomainLists(d, need0, replaced, keep, st, override,
                 sort_by_score(SelectSeq(strict, unused), sc),
                 sort_by_score(SelectSeq(strict, used), sc), sc)

\* lines 483-503: need, strict (replaced by override when too short), keep
DomainCandidates(d, st, cx, strict0, override, keep) ==
  DomainSorted(d, Required(d), Len(strict0) < Required(d), keep, st, override,
               IF Len(strict0) < Required(d) THEN override ELSE strict0,
               [u \in Units |-> score_unit(u, u \in keep, cx.do_rotate,
                                           cx.bat, st.last_assigned_tick, cx.t)])

\* variant: Tier A is skipped; the incumbents compete on score in Tier B
TierASkipped(c, st, cx) ==
  [need |-> c.need0, chosen |-> <<>>, capacity |-> st.capacity, used_units |-> st.used_units]
\* A: keep among unused strict
TierA(c, st, cx) ==
  LET t0 == [need |-> c.need0, chosen |-> <<>>, capacity |-> st.capacity,
             used_units |-> st.used_units]
  IN IF ~cx.do_rotate /\ c.keep_candidates # {}
     THEN TakeFrom(c.unused_strict, t0, c.keep_candidates, TRUE, FALSE, TRUE)
     ELSE t0
\* variant: units already used in this tick are tried before the unused ones
TierBUsedFirst(c, tA) ==
  TakeFrom(c.used_strict \o c.unused_strict, tA, {}, FALSE, TRUE, TRUE)
\* B: unused strict
TierB(c, tA) == TakeFrom(c.unused_strict, tA, {}, FALSE, TRUE, TRUE)
\* variant: resting units below the wake threshold are left asleep
GateCNeverOpen(c, cx, tB) == FALSE
\* C: wake additional unused override units while below the distinctness target
GateC(c, cx, tB) ==
  tB.need > 0 /\ Cardinality(tB.used_units) < cx.desired_distinct /\ c.unused_override # <<>>
TierC(c, cx, tB) ==
  IF GateC(c, cx, tB) THEN TakeFrom(c.unused_override, tB, {}, FALSE, FALSE, TRUE) ELSE tB
\* D: used strict (multi-role)
TierD(c, tC) == TakeFrom(c.used_strict, tC, {}, FALSE, FALSE, FALSE)
\* E: used override, last resort
GateE(c, tD) == tD.need > 0 /\ c.used_override # <<>>
TierE(c, tD) ==
  IF GateE(c, tD) THEN TakeFrom(c.used_override, tD, {}, FALSE, FALSE, FALSE) ELSE tD

\* the events of one domain, in the order of lines 494, 544, 567, 578
DomainEvents(c, cx, evs, tB, tD, tE) ==
  LET e1 == IF c.replaced THEN emit_event(evs, "wake_override", {c.d}, "") ELSE evs
      e2 == IF GateC(c, cx, tB) THEN emit_event(e1, "distinctness_wake", {c.d}, "") ELSE e1
      e3 == IF GateE(c, tD) THEN emit_event(e2, "wake_override_used", {c.d}, "") ELSE e2
  IN IF tE.need > 0 THEN emit_event(e3, "unmet_requirements", {c.d}, "need_remaining") ELSE e3

\* Commit (lines 581-586), with the loop state the tiers leave
Commit(c, st, cx, tB, tD, tE) ==
  [ capacity           |-> tE.capacity,
    used_units         |-> tE.used_units,
    assignments        |-> st.assignments \o PairsOf(c.d, tE.chosen),
    assign_map         |-> [st.assign_map EXCEPT ![c.d] = @ \o tE.chosen],
    events             |-> DomainEvents(c, cx, st.events, tB, tD, tE),
    strict             |-> st.strict,
    override           |-> st.override,
    faults             |-> FaultsPop(c.d, cx.alive, cx.units_all, cx.bat, st.faults, cx.now_ms),
    last_service_tick  |-> IF tE.chosen = <<>> THEN st.last_service_tick
                           ELSE [st.last_service_tick EXCEPT ![c.d] = cx.t],
    last_assigned_tick |-> [u \in (DOMAIN st.last_assigned_tick) \cup SeqToSet(tE.chosen) |->
                              IF InSeq(u, tE.chosen) THEN cx.t ELSE st.last_assigned_tick[u]] ]

\* the tiers in sequence, each on the result of the one before
RunE(c, st, cx, tB, tD) == Commit(c, st, cx, tB, tD, TierE(c, tD))
RunD(c, st, cx, tB, tC) == RunE(c, st, cx, tB, TierD(c, tC))
RunC(c, st, cx, tB) == RunD(c, st, cx, tB, TierC(c, cx, tB))
RunB(c, st, cx, tA) == RunC(c, st, cx, TierB(c, tA))
RunTiers(c, st, cx) == RunB(c, st, cx, TierA(c, st, cx))

\* strict, override and keep_candidates of d, then the tiers
DomainFill(d, st, cx, strict0, override) ==
  RunTiers(DomainCandidates(d, st, cx, strict0, override,
                            KeepCandidates(d, override, cx.do_rotate,
                                           cx.prev_active_set, cx.bat, cx.t)),
           [st EXCEPT !.strict[d] = strict0, !.override[d] = override], cx)

\* Body of 'for d in ordered_domains'.  cx: what the loop only reads,
\* st: what it updates.
DomainStep(d, st, cx) ==
  IF Required(d) <= 0 THEN st
  ELSE DomainFill(d, st, cx,
         candidates_for_domain(d, cx.alive, cx.units_all, cx.bat, st.faults, cx.now_ms, FALSE),
         candidates_for_domain(d, cx.alive, cx.units_all, cx.bat, st.faults, cx.now_ms, TRUE))

RECURSIVE DomainLoop(_, _, _)
DomainLoop(ds, st, cx) ==
  IF ds = <<>> THEN st ELSE DomainLoop(Tail(ds), DomainStep(Head(ds), st, cx), cx)

\* ---- battery update ------------------------------------------------------
\* drain_per_unit[u]: sum of base_drain * weight over the pairs (d, u)
RECURSIVE drain_per_unit(_, _)
drain_per_unit(u, asg) ==
  IF asg = <<>> THEN 0
  ELSE (IF Head(asg)[2] = u
        THEN drain_per_role_pct * (IF Head(asg)[1] \in DOMAIN cfg.domain_weights
                                   THEN cfg.domain_weights[Head(asg)[1]] ELSE 1)
        ELSE 0)
       + drain_per_unit(u, Tail(asg))

\* rest_w = max(0.0, domain_weights.get(rest_domain, 1.0))
rest_w == Max2(0, IF rest_domain \in DOMAIN cfg.domain_weights
                  THEN cfg.domain_weights[rest_domain] ELSE 1)

\* variant: a unit that is down is recharged like a resting one
BatteryAfterRechargesDown(u, al, bat, asg) ==
  IF drain_per_unit(u, asg) > 0
  THEN Max2(0, bat[u] - drain_per_unit(u, asg))
  ELSE IF u \in battery_dead THEN bat[u]
       ELSE Min2(100, bat[u] + recharge_pct * rest_w)

\* variant: the recharge is not clamped at 100
BatteryAfterNoClamp(u, al, bat, asg) ==
  IF ~is_alive(u, al) THEN bat[u]
  ELSE IF drain_per_unit(u, asg) > 0
       THEN Max2(0, bat[u] - drain_per_unit(u, asg))
       ELSE bat[u] + recharge_pct * rest_w

\* the battery of u after the update loop (u a key of bat)
BatteryAfter(u, al, bat, asg) ==
  IF ~is_alive(u, al) THEN bat[u]
  ELSE IF drain_per_unit(u, asg) > 0
       THEN Max2(0, bat[u] - drain_per_unit(u, asg))
       ELSE Min2(100, bat[u] + recharge_pct * rest_w)

\* variant: a unit is declared dead once it is at the swap threshold
NewlyDeadAtThreshold(al, bat, asg) ==
  { u \in DOMAIN al : /\ is_alive(u, al)
                      /\ drain_per_unit(u, asg) > 0
                      /\ bat[u] - drain_per_unit(u, asg) <= swap_threshold_pct }
\* the units the update loop adds to battery_dead
NewlyDead(al, bat, asg) ==
  { u \in DOMAIN al : /\ is_alive(u, al)
                      /\ drain_per_unit(u, asg) > 0
                      /\ bat[u] - drain_per_unit(u, asg) <= 0 }

RECURSIVE EmitForUnits(_, _, _, _)
EmitForUnits(evs, us, kind, keep) ==
  IF us = <<>> THEN evs
  ELSE EmitForUnits(IF Head(us) \in keep THEN emit_event(evs, kind, {Head(us)}, "") ELSE evs,
                    Tail(us), kind, keep)

\* ---- requirement coverage and gap enforcement -----------------------------
\* variant: the rest domain is checked like the others
UnmetDomainsWithRest(amap) ==
  { d \in DomainSet : Required(d) > 0 /\ Len(amap[d]) < Required(d) }
\* unmet: the domains with need_d > 0 and got_d < need_d
UnmetDomains(amap) ==
  { d \in DomainsActiveSet : Required(d) > 0 /\ Len(amap[d]) < Required(d) }

\* the domains whose gap exceeds max_gap_ticks, in domains_active order
GapExceeded(lst, t) ==
  LET over(d) == (t - lst[d]) > cfg.max_gap_ticks IN SelectSeq(domains_active, over)

\* variant: the streak is not reset by a tick that meets every domain
next_streak_never_reset(unmet, streak) == IF unmet # {} THEN streak + 1 ELSE streak
\* lines 596-597, 604-605: the streak after the coverage check
next_streak(unmet, streak) == IF unmet # {} THEN streak + 1 ELSE 0

\* variant: the grace window is one tick long
streak_exceeded_late(streak) == streak > cfg.max_gap_ticks + 1
\* variant: the grace window is one tick short
streak_exceeded_early(streak) == streak >= cfg.max_gap_ticks
\* line 599: self._unmet_requirements_streak > self.max_gap_ticks
streak_exceeded(streak) == streak > cfg.max_gap_ticks

\* variant: the failure is raised in demo mode too
raises_always(failed) == failed
\* lines 601-602 and 617-618: if self.strict_mission_failure: raise RuntimeError(msg)
raises(failed) == failed /\ cfg.strict_mission_failure

RECURSIVE EmitGap(_, _)
EmitGap(evs, ds) ==
  IF ds = <<>> THEN evs
  ELSE EmitGap(emit_event(evs, "mission_failure", {Head(ds)}, "GAP_EXCEEDED"), Tail(ds))

\* ---- main scheduler tick ---------------------------------------------------
\* lines 442-479: what the domain loop only reads
TickContext(al, bat, units_all) ==
  [ alive            |-> al,
    units_all        |-> units_all,
    bat              |-> bat,
    t                |-> tick + 1,
    now_ms           |-> time_ms(tick + 1),
    do_rotate        |-> is_rotation_tick(tick + 1),
    prev_active_set  |-> UNION {SeqToSet(prev_assign[d]) : d \in DomainSet},
    desired_distinct |-> Min2(total_required_roles,
                              Cardinality({u \in DOMAIN al : can_assign(u, al, bat)})) ]

\* lines 453-467: what the domain loop updates, before its first iteration
LoopStart(cx) ==
  [ capacity           |-> [u \in Units |->
                              IF u \in DOMAIN cx.alive /\ can_assign(u, cx.alive, cx.bat)
                              THEN cfg.capacity_per_unit ELSE 0],
    used_units         |-> {},
    assignments        |-> <<>>,
    assign_map         |-> EmptyAssign,
    events             |-> IF cx.do_rotate THEN emit_event(<<>>, "rotation", {}, "") ELSE <<>>,
    strict             |-> [d \in DomainsActiveSet |-> <<>>],
    override           |-> [d \in DomainsActiveSet |-> <<>>],
    faults             |-> domain_faults,
    last_service_tick  |-> last_service_tick,
    last_assigned_tick |-> last_assigned_tick ]

\* lines 588-722, on the loop's result st: coverage check, gap enforcement
\* and, for a call that returns, bookkeeping and battery update
TickFinish(cx, st, unmet, gapped, active_set) ==
  LET al == cx.alive
      t == cx.t
      streak == next_streak(unmet, unmet_requirements_streak)
      e5 == IF unmet # {} THEN emit_event(st.events, "unmet_requirements", unmet, "need_got")
            ELSE st.events
      streak_fail == unmet # {} /\ streak_exceeded(streak)
      e6 == IF streak_fail THEN emit_event(e5, "mission_failure", unmet, "unmet") ELSE e5
      raise_streak == raises(streak_fail)
      raise_gap == ~raise_streak /\ raises(gapped # <<>>)
      e7 == IF raise_streak THEN e6
            ELSE IF raise_gap THEN EmitGap(e6, <<Head(gapped)>>)
            ELSE EmitGap(e6, gapped)
      \* active / rest sets
      rest_set == {u \in DOMAIN al : is_alive(u, al) /\ u \notin active_set}
      rest_list == {u \in DOMAIN al : is_alive(u, al) /\ u \notin active_set
                                       /\ u \notin battery_dead}
      \* dwell tracking
      since1 == [u \in (DOMAIN active_since_tick) \cup (active_set \ cx.prev_active_set) |->
                   IF u \in active_set \ cx.prev_active_set THEN t ELSE active_since_tick[u]]
      \* rest bookkeeping
      rsince1 == [u \in (DOMAIN resting_since_tick) \cup rest_set |->
                    IF u \in DOMAIN resting_since_tick THEN resting_since_tick[u] ELSE t]
      \* battery update
      newly_dead == NewlyDead(al, cx.bat, st.assignments)
      bat2 == [u \in DOMAIN cx.bat |->
                 IF u \in DOMAIN al THEN BatteryAfter(u, al, cx.bat, st.assignments)
                 ELSE cx.bat[u]]
      e8 == EmitForUnits(e7, cx.units_all, "battery_dead", newly_dead)
      dead2 == battery_dead \cup newly_dead
      low == {u \in active_set : u \notin dead2 /\ BatGet(bat2, u) <= swap_threshold_pct}
  IN [ raised        |-> IF raise_streak THEN "streak" ELSE IF raise_gap THEN "gap" ELSE "none",
       t             |-> t,
       bat0          |-> cx.bat,
       do_rotate     |-> cx.do_rotate,
       st            |-> st,
       streak        |-> streak,
       events_raise  |-> e7,
       events_dead   |-> e8,
       low           |-> low,
       amap          |-> [st.assign_map EXCEPT ![rest_domain] = SortedUnits(rest_list)],
       rest_set      |-> rest_set,
       active_since  |-> Drop(since1, cx.prev_active_set \ active_set),
       resting_since |-> Drop(rsince1, active_set),
       bat2          |-> bat2,
       dead2         |-> dead2 ]

\* 'for u in active_set': active_set is a set of str, which Python visits in
\* the order of the hashes of this interpreter run (randomised per process);
\* the orders in which the loop may reach the units of S
IterationOrders(S) ==
  { s \in [1..Cardinality(S) -> S] :
      \A i, j \in 1..Cardinality(S) : i # j => s[i] # s[j] }

\* variant: a row is written for every domain on every tick
TimelineRowsAlways(prev, curr) == [i \in 1..Len(domains) |-> <<domains[i], curr[domains[i]]>>]
\* lines 704-711: one row per domain of self.domains whose list changed
TimelineRows(prev, curr) ==
  LET changed(d) == prev[d] # curr[d]
      row(d) == <<d, curr[d]>>
      ds == SelectSeq(domains, changed)
  IN [i \in 1..Len(ds) |-> row(ds[i])]

TickAfterLoop(cx, st) ==
  TickFinish(cx, st, UnmetDomains(st.assign_map), GapExceeded(st.last_service_tick, cx.t),
             {st.assignments[i][2] : i \in 1..Len(st.assignments)})

TickFromContext(cx) ==
  TickAfterLoop(cx, DomainLoop(SortDomains(domains_active, last_service_tick, cx.t),
                               LoopStart(cx), cx))

\* lines 645-650: some unit holds more than one of the tick's pairs
multi_role(asg) ==
  \E i, j \in 1..Len(asg) : i # j /\ asg[i][2] = asg[j][2]

\* ---- sample logs -----------------------------------------------------------
\* active_set of _maybe_sample: for d in self.domains: update(assign_map.get(d, []))
SampleActiveSet(amap) == UNION {SeqToSet(amap[d]) : d \in DomainSet}

\* the state column of one battery sample row
SampleState(u, al, amap, dead) ==
  IF u \in dead THEN "dead"
  ELSE IF ~AliveGet(al, u) THEN "down"
  ELSE IF u \in SampleActiveSet(amap) THEN "active"
  ELSE "rest"

\* _maybe_sample(alive, assign_map) at the end of tick t, with the batteries
\* bat and the dead set of that moment: nothing unless t is a multiple of
\* sample_every_ticks, else one block of battery rows (one per unit of the
\* alive map) and one assignment row
maybe_sample(t, al, amap, bat, dead) ==
  IF t % cfg.sample_every_ticks # 0 THEN <<>>
  ELSE LET units_all == SortedUnits(DOMAIN al)
           assignable == Cardinality({u \in DOMAIN al :
                                        AliveGet(al, u) /\ u \notin dead /\ BatGet(bat, u) > 0})
       IN << [ battery |-> [i \in 1..Len(units_all) |->
                              [ unit        |-> units_all[i],
                                battery_pct |-> BatGet(bat, units_all[i]),
                                state       |-> SampleState(units_all[i], al, amap, dead) ]],
               desired_distinct |-> Min2(total_required_roles, assignable),
               actual_distinct  |-> Cardinality(SampleActiveSet(amap)),
               devices          |-> amap ] >>

\* Everything schedule_tick(al) computes, as one record.
TickResult(al) ==
  TickFromContext(TickContext(al, ensure_battery_initialized(battery_pct, DOMAIN al),
                              SortedUnits(DOMAIN al)))

\* variant: the battery update runs before the failure is raised
battery_at_raise_updated(r) == r.bat2
\* self.battery_pct when line 602 or 618 raises: the map as
\* _ensure_battery_initialized left it (line 447); lines 659-685 are not reached
battery_at_raise(r) == r.bat0

\* schedule_tick(al).  A call that raises keeps what it had written before
\* the raise; a call that returns also runs lines 622-722.
schedule_tick(al) ==
  /\ \E r \in {TickResult(al)} :
       /\ tick' = r.t
       /\ alive' = al
       /\ raised' = r.raised
       /\ last_rotation_ms' = IF r.do_rotate THEN time_ms(r.t) ELSE last_rotation_ms
       /\ domain_faults' = r.st.faults
       /\ last_service_tick' = r.st.last_service_tick
       /\ last_assigned_tick' = r.st.last_assigned_tick
       /\ unmet_requirements_streak' = r.streak
       /\ assignments' = r.st.assignments
       /\ strict_list' = r.st.strict
       /\ override_list' = r.st.override
       /\ IF r.raised # "none"
          THEN /\ events' = r.events_raise
               /\ timeline' = <<>>
               /\ battery_pct' = battery_at_raise(r)
               /\ assign_map' = r.st.assign_map
               /\ samples' = <<>>
               /\ UNCHANGED << prev_assign, last_assign_map, rest_units, battery_dead,
                               active_since_tick, resting_since_tick, ticks_multi_role >>
          ELSE /\ \E ord \in IterationOrders(r.low) :
                    events' = EmitForUnits(r.events_dead, ord, "low_battery_active", r.low)
               /\ timeline' = TimelineRows(prev_assign, r.amap)
               /\ battery_pct' = r.bat2
               /\ battery_dead' = r.dead2
               /\ assign_map' = r.amap
               /\ prev_assign' = r.amap
               /\ last_assign_map' = r.amap
               /\ rest_units' = r.rest_set
               /\ active_since_tick' = r.active_since
               /\ resting_since_tick' = r.resting_since
               /\ ticks_multi_role' = IF multi_role(r.st.assignments)
                                      THEN ticks_multi_role + 1 ELSE ticks_multi_role
               /\ samples' = maybe_sample(r.t, al, r.amap, r.bat2, r.dead2)
  /\ last_call' = "schedule_tick"
  /\ UNCHANGED << cfg, fault_calls >>

\* a driver that stops after MaxTick calls
Tick(al) == tick < MaxTick /\ schedule_tick(al)

\* ---- fault API -------------------------------------------------------------
set_domain_fault(u, d, duration_ms, permanent) ==
  /\ fault_calls' = fault_calls + 1
  /\ last_call' = "set_domain_fault"
  /\ domain_faults' = Put(domain_faults, <<u, d>>,
                          [permanent |-> permanent,
                           recover_at |-> IF permanent THEN 0 ELSE time_ms(tick) + duration_ms])
  /\ UNCHANGED << cfg, tick, last_service_tick, prev_assign, last_assign_map,
                  rest_units, events, battery_pct, battery_dead,
                  last_rotation_ms, last_assigned_tick, active_since_tick,
                  resting_since_tick, unmet_requirements_streak, alive,
                  assignments, assign_map, raised, timeline, strict_list,
                  override_list, ticks_multi_role, samples >>

\* a fault injector that stops after MaxFaultCalls calls
FaultCall(u, d, duration_ms, permanent) ==
  fault_calls < MaxFaultCalls /\ set_domain_fault(u, d, duration_ms, permanent)

\* (a call on an empty table changes nothing and is left out)
\* variant: only the temporary faults are cleared
clear_temporary_domain_faults ==
  /\ domain_faults # EmptyMap
  /\ domain_faults' = Drop(domain_faults, {k \in DOMAIN domain_faults : ~domain_faults[k].permanent})
  /\ last_call' = "clear_all_domain_faults"
  /\ UNCHANGED << cfg, fault_calls, tick, last_service_tick, prev_assign, last_assign_map,
                  rest_units, events, battery_pct, battery_dead,
                  last_rotation_ms, last_assigned_tick, active_since_tick,
                  resting_since_tick, unmet_requirements_streak, alive,
                  assignments, assign_map, raised, timeline, strict_list,
                  override_list, ticks_multi_role, samples >>

clear_all_domain_faults ==
  /\ domain_faults # EmptyMap
  /\ domain_faults' = EmptyMap
  /\ last_call' = "clear_all_domain_faults"
  /\ UNCHANGED << cfg, fault_calls, tick, last_service_tick, prev_assign, last_assign_map,
                  rest_units, events, battery_pct, battery_dead,
                  last_rotation_ms, last_assigned_tick, active_since_tick,
                  resting_since_tick, unmet_requirements_streak, alive,
                  assignments, assign_map, raised, timeline, strict_list,
                  override_list, ticks_multi_role, samples >>

\* ---- the state machine -----------------------------------------------------
\* the attribute values __init__ leaves behind (lines 86-210); no argument is
\* checked on the way
AfterConstruction ==
  /\ tick = 0
  /\ last_service_tick = [d \in DomainsActiveSet |-> 0]
  /\ prev_assign = EmptyAssign
  /\ last_assign_map = EmptyAssign
  /\ rest_units = {}
  /\ events = <<>>
  /\ battery_pct = EmptyMap
  /\ battery_dead = {}
  /\ domain_faults = EmptyMap
  /\ last_rotation_ms = 0
  /\ last_assigned_tick = EmptyMap
  /\ active_since_tick = EmptyMap
  /\ resting_since_tick = EmptyMap
  /\ unmet_requirements_streak = 0
  /\ alive = EmptyMap
  /\ assignments = <<>>
  /\ assign_map = EmptyAssign
  /\ raised = "none"
  /\ timeline = <<>>
  /\ strict_list = [d \in DomainsActiveSet |-> <<>>]
  /\ override_list = [d \in DomainsActiveSet |-> <<>>]
  /\ ticks_multi_role = 0
  /\ samples = <<>>
  /\ fault_calls = 0
  /\ last_call = "none"

Init ==
  /\ cfg \in Configs
  /\ AfterConstruction

\* arguments __init__ takes as they come: a negative requirement, a gap
\* limit of zero ticks, a pool that names a unit no alive map knows
UncheckedConfigs ==
  { Config(2, [a |-> 1, b |-> -1], 2, NoPools, WeightsOne, TRUE, 8, 10),
    Config(2, [a |-> 1, b |-> 1], 0, NoPools, WeightsTwo, FALSE, 50, 20),
    Config(1, [a |-> 2, b |-> 1], 1, PoolsUnknownUnit, WeightsOne, FALSE, 8, 20) }

InitUnchecked ==
  /\ cfg \in UncheckedConfigs
  /\ AfterConstruction

Next ==
  \/ \E al \in AliveMaps : Tick(al)
  \/ \E k \in FaultTargets, dur \in FaultDurations :
       FaultCall(k[1], k[2], dur, FALSE)
  \/ \E k \in FaultTargets : FaultCall(k[1], k[2], 0, TRUE)
  \/ clear_all_domain_faults

Spec == Init /\ [][Next]_vars

\* the scheduler driven from arguments nothing has validated
SpecUnchecked == InitUnchecked /\ [][Next]_vars

\* ---- missions that list their domains in another order ---------------------
\* the same missions with domains = [b, a, rest]
ReorderedConfigs ==
  { [ c EXCEPT !.domains = <<"b", "a", "rest">> ] :
      c \in { Config(1, [a |-> 1, b |-> 1], 2, NoPools, WeightsOne, TRUE, 8, 10),
              Config(2, [a |-> 2, b |-> 1], 1, NoPools, WeightsTwo, FALSE, 50, 20) } }

InitReordered ==
  /\ cfg \in ReorderedConfigs
  /\ AfterConstruction

SpecReordered == InitReordered /\ [][Next]_vars

\* ---- scenario 3: deadline failure -----------------------------------------
\* one domain radar requiring 1, one unit u1, max_gap_ticks = 10, strict mode;
\* the battery lasts longer than the run
Scenario3Config ==
  [ Config(2, [radar |-> 1], 10, NoPools, [radar |-> 1, rest |-> 2], TRUE, 8, 10)
      EXCEPT !.domains = <<"radar", "rest">>, !.battery_life_ms = 50 ]

InitScenario3 ==
  /\ cfg = Scenario3Config
  /\ AfterConstruction

\* the driver: u1 is reported alive until some tick and down from then on;
\* the run ends with the first call that raises
Scenario3Tick ==
  /\ tick < Scenario3MaxTick
  /\ raised = "none"
  /\ \E up \in BOOLEAN :
       /\ up => (IF tick = 0 THEN TRUE ELSE alive["u1"])
       /\ schedule_tick([u \in {"u1"} |-> up])

SpecScenario3 == InitScenario3 /\ [][Scenario3Tick]_vars

\* ---- scenario 6: contingency doubling -------------------------------------
\* units u1, u2, u3, domains a and b requiring 1 each, capacity_per_unit 2,
\* universal roles, strict mode; the knobs the scenario leaves open vary
Scenario6Configs ==
  { [ Config(2, [a |-> 1, b |-> 1], 2, NoPools, w, TRUE, h, th)
        EXCEPT !.battery_life_ms = life ] :
      w \in {WeightsOne, WeightsTwo}, h \in {8, 50}, th \in {10, 20}, life \in {5, 50} }

InitScenario6 ==
  /\ cfg \in Scenario6Configs
  /\ AfterConstruction

\* u3 is faulted permanently for both domains before the first tick
Scenario6Faulted == \A d \in DomainsActiveSet : <<"u3", d>> \in DOMAIN domain_faults
Scenario6Fault ==
  /\ tick = 0
  /\ \E d \in DomainsActiveSet :
       /\ <<"u3", d>> \notin DOMAIN domain_faults
       /\ set_domain_fault("u3", d, 0, TRUE)

\* every tick reports the three units alive; the run ends with the first
\* call that raises
Scenario6Tick ==
  /\ Scenario6Faulted
  /\ tick < Scenario6MaxTick
  /\ raised = "none"
  /\ schedule_tick([u \in Units |-> TRUE])

NextScenario6 == Scenario6Fault \/ Scenario6Tick

SpecScenario6 == InitScenario6 /\ [][NextScenario6]_vars


\* ---- missions with other rotation periods ----------------------------------
\* rotation switched off (period 0), a period of two ticks, and a period of
\* 3 ms under a tick of 2 ms (a boundary every second tick, 4 ms apart)
RotationConfigs ==
  { [ Config(2, [a |-> 2, b |-> 1], 2, NoPools, WeightsOne, FALSE, 8, 10)
        EXCEPT !.rotation_period_ms = pt[1], !.tick_ms = pt[2],
               !.battery_life_ms = 10 * pt[2] ] :
      pt \in { <<0, 1>>, <<2, 1>>, <<3, 2>> } }

InitRotation ==
  /\ cfg \in RotationConfigs
  /\ AfterConstruction

\* a driver that stops after RotationMaxTick calls
RotationTick == \E al \in AliveMaps : tick < RotationMaxTick /\ schedule_tick(al)

SpecRotation == InitRotation /\ [][RotationTick]_vars


\* ---- missions whose requirement mapping leaves a domain out -----------------
\* required_active_per_domain = {a: ...}: no key for b
MissingKeyConfigs ==
  { Config(2, [a |-> 1], 2, NoPools, WeightsOne, TRUE, 8, 10),
    Config(1, [a |-> 2], 1, NoPools, WeightsTwo, FALSE, 50, 20) }

InitMissingKey ==
  /\ cfg \in MissingKeyConfigs
  /\ AfterConstruction

SpecMissingKey == InitMissingKey /\ [][Next]_vars


\* ---- the drivers' gap window -------------------------------------------------
\* run_mission / MissionGUI._init_scheduler:
\* max_gap_ticks = max(1, int(max_gap_ms / tick_ms)); int() truncates, which
\* for positive operands is the integer quotient
driver_max_gap_ticks(max_gap_ms, tick_ms) == Max2(1, max_gap_ms \div tick_ms)

\* the missions a driver loads: constraints.max_gap_ms and tick_ms
DriverMaxGapMs == 1..4
DriverTickMs == {1, 2, 3}

\* the scheduler a driver builds from such a mission (the mission's
\* max_gap_ms is kept beside the constructor's arguments)
DriverConfigs ==
  { Put([ Config(2, [a |-> 1, b |-> 1], driver_max_gap_ticks(gap_ms, t_ms),
                 NoPools, WeightsOne, TRUE, 8, 10)
            EXCEPT !.tick_ms = t_ms, !.battery_life_ms = 10 * t_ms ],
        "max_gap_ms", gap_ms) :
      gap_ms \in DriverMaxGapMs, t_ms \in DriverTickMs }

InitDriver ==
  /\ cfg \in DriverConfigs
  /\ AfterConstruction

SpecDriver == InitDriver /\ [][Next]_vars


(***************************************************************************)
(* Properties                                                              *)
(***************************************************************************)
\* the last step was a schedule_tick call
Ticked == tick > 0
\* the last schedule_tick call returned (did not raise)
Completed == tick > 0 /\ raised = "none"
\* the non-rest domains to which the last call assigned u
DomainsOf(u) == {d \in DomainsActiveSet : InSeq(u, assign_map[d])}
NoDuplicates(s) == \A i, j \in 1..Len(s) : i # j => s[i] # s[j]
HasEvent(kind, d) == \E i \in 1..Len(events) : events[i].kind = kind /\ d \in events[i].detail
HasEventKind(kind) == \E i \in 1..Len(events) : events[i].kind = kind

\* C1: in every tick, no unit is assigned to more than capacity_per_unit
\* non-rest domains.
C1_CapacityRespected ==
  \A u \in Units : Cardinality(DomainsOf(u)) <= cfg.capacity_per_unit

\* a tick in which a unit serves as many domains as its capacity allows,
\* more than one
C1_Witness ==
  /\ Ticked /\ cfg.capacity_per_unit = 2
  /\ \E u \in Units : Cardinality(DomainsOf(u)) = 2

\* C2: in every tick, the list of units assigned to a domain holds no unit
\* twice.
C2_NoDuplicateInDomain ==
  \A d \in DomainsActiveSet : NoDuplicates(assign_map[d])

\* pool mode, a domain filled with two units, one of them listed both in
\* the domain's pool and in the spares
C2_Witness ==
  /\ Ticked /\ ~cfg.universal_roles
  /\ \E d \in DomainsActiveSet : \E u \in Units :
       /\ InSeq(u, cfg.pools[d]) /\ InSeq(u, cfg.pools["spares"])
       /\ InSeq(u, assign_map[d]) /\ Len(assign_map[d]) = 2

\* C3: a unit that is dead when a tick starts, or that the tick's alive map
\* does not report alive (false or absent), is in none of the tick's
\* assignment lists, the rest entry included.
C3_DeadOrDownNeverAssigned ==
  [][ tick' = tick + 1 =>
        \A u \in Units :
          (u \in battery_dead \/ ~AliveGet(alive', u)) =>
             \A d \in DomainSet : ~InSeq(u, assign_map'[d]) ]_vars

\* a completed tick whose alive map reports a dead unit alive, another unit
\* down, and neither is in any list
C3_Witness ==
  /\ Completed
  /\ \E u, v \in Units :
       /\ u \in battery_dead /\ AliveGet(alive, u)
       /\ \A d \in DomainSet : ~InSeq(u, assign_map[d])
       /\ v \in DOMAIN alive /\ ~alive[v]
       /\ \E d \in DomainsActiveSet : assign_map[d] # <<>>


\* ---- C4 --------------------------------------------------------------------
\* u may serve d in the tick that starts now with alive map al: alive, not
\* dead, with battery, not faulted for d at the tick's time and, in pool
\* mode, listed in pool[d] or in the spares
Eligible(u, d, al) ==
  /\ AliveGet(al, u) /\ u \notin battery_dead
  /\ (u \in DOMAIN battery_pct => battery_pct[u] > 0)
  /\ ~(/\ <<u, d>> \in DOMAIN domain_faults
       /\ \/ domain_faults[<<u, d>>].permanent
          \/ (tick + 1) * cfg.tick_ms < domain_faults[<<u, d>>].recover_at)
  /\ \/ cfg.universal_roles
     \/ InSeq(u, cfg.pools[d]) \/ InSeq(u, cfg.pools["spares"])

\* some assignment gives every domain its required number of distinct
\* eligible units and no unit more than capacity_per_unit domains
Feasible(al) ==
  \E f \in [DomainsActiveSet -> SUBSET Units] :
    /\ \A d \in DomainsActiveSet :
         /\ Cardinality(f[d]) = cfg.required_map[d]
         /\ \A u \in f[d] : Eligible(u, d, al)
    /\ \A u \in Units :
         Cardinality({d \in DomainsActiveSet : u \in f[d]}) <= cfg.capacity_per_unit

\* every unit that is alive and not dead is eligible for every domain
AllInterchangeable(al) ==
  \A u \in Units : \A d \in DomainsActiveSet :
    (AliveGet(al, u) /\ u \notin battery_dead) => Eligible(u, d, al)

AllMet == \A d \in DomainsActiveSet : Len(assign_map[d]) >= cfg.required_map[d]

\* C4 (as claimed): whenever some assignment meets every requirement within
\* the capacities, the tick's assignment meets every requirement and no
\* unmet_requirements event is emitted.
C4_Original ==
  [][ (tick' = tick + 1 /\ Feasible(alive')) =>
        (AllMet /\ ~HasEventKind("unmet_requirements"))' ]_vars

\* C4 (amended): the same, on the ticks where every alive, not-dead unit is
\* eligible for every non-rest domain (universal roles, or pools that list
\* it, and no active fault) and capacity_per_unit is at most 2.
C4_FeasibleMetWhenInterchangeable ==
  [][ (/\ tick' = tick + 1
       /\ cfg.capacity_per_unit <= 2
       /\ AllInterchangeable(alive')
       /\ Feasible(alive')) =>
        (AllMet /\ ~HasEventKind("unmet_requirements"))' ]_vars

\* universal roles, no fault, two roles required, one unit carries both
C4_Witness ==
  /\ Completed /\ cfg.universal_roles /\ domain_faults = EmptyMap
  /\ AllMet /\ ~HasEventKind("unmet_requirements")
  /\ \E u \in Units : Cardinality(DomainsOf(u)) = 2
  /\ \E v \in Units : v \in DOMAIN alive /\ ~alive[v]

\* ---- C5 --------------------------------------------------------------------
\* C5: in strict mode the call that takes the streak to max_gap_ticks + 1
\* raises, a call raises for the streak only when the streak is above
\* max_gap_ticks, and the last event recorded by a raising call is
\* mission_failure.
C5_StrictRaiseAtGrace ==
  (Ticked /\ cfg.strict_mission_failure) =>
    /\ unmet_requirements_streak = cfg.max_gap_ticks + 1 => raised = "streak"
    /\ raised = "streak" => unmet_requirements_streak > cfg.max_gap_ticks
    /\ raised # "none" =>
         /\ events # <<>>
         /\ events[Len(events)].kind = "mission_failure"

\* the streak has just reached max_gap_ticks + 1 with a grace of two ticks
C5_Witness ==
  /\ cfg.strict_mission_failure /\ cfg.max_gap_ticks = 2
  /\ unmet_requirements_streak = 3 /\ raised = "streak"
  /\ HasEventKind("mission_failure")

\* ---- C6 --------------------------------------------------------------------
SomeDomainShort == \E d \in DomainsActiveSet : Len(assign_map[d]) < cfg.required_map[d]

\* C6: a tick that leaves some non-rest domain short of its requirement adds
\* one to the streak, a tick that meets every domain resets it to zero, and
\* in strict mode a call that returns leaves the streak at most
\* max_gap_ticks.
C6_StreakTracksUnmet ==
  /\ [][ tick' = tick + 1 =>
           unmet_requirements_streak' =
             IF SomeDomainShort' THEN unmet_requirements_streak + 1 ELSE 0 ]_vars
  /\ [](Completed /\ cfg.strict_mission_failure =>
          unmet_requirements_streak <= cfg.max_gap_ticks)

\* strict mode: a tick left a domain short and returned with the streak at
\* its limit
C6_Witness ==
  /\ Completed /\ cfg.strict_mission_failure /\ SomeDomainShort
  /\ unmet_requirements_streak = cfg.max_gap_ticks

\* ---- C7 --------------------------------------------------------------------
\* C7 (as claimed): a domain gets either no unit or exactly its requirement,
\* and a required domain gets none only with an unmet_requirements event
\* naming it.
C7_Original ==
  Ticked =>
    \A d \in DomainsActiveSet :
      /\ Len(assign_map[d]) \in {0, cfg.required_map[d]}
      /\ (cfg.required_map[d] > 0 /\ Len(assign_map[d]) = 0) =>
            HasEvent("unmet_requirements", d)

\* C7 (amended): a domain never gets more units than its requirement (it may
\* get fewer, a partial fill that is committed), and it gets fewer only in
\* a tick that emitted an unmet_requirements event naming it.
C7_AtMostRequiredAndShortIsReported ==
  Ticked =>
    \A d \in DomainsActiveSet :
      /\ Len(assign_map[d]) <= cfg.required_map[d]
      /\ Len(assign_map[d]) < cfg.required_map[d] => HasEvent("unmet_requirements", d)

\* a partial fill: a domain that requires two units got exactly one
C7_Witness ==
  /\ Ticked
  /\ \E d \in DomainsActiveSet :
       /\ cfg.required_map[d] = 2 /\ Len(assign_map[d]) = 1
       /\ HasEvent("unmet_requirements", d)

\* ---- C8 --------------------------------------------------------------------
RequiredTotal == SumOver(DomainsActiveSet, cfg.required_map)
\* the units the map reports alive that are not dead when the tick starts
Supply(al) == {u \in Units : AliveGet(al, u) /\ u \notin battery_dead}

\* C8: in a tick where the alive, not-dead units times capacity_per_unit is
\* less than the total requirement, some non-rest domain has an
\* unmet_requirements event.
C8_ShortSupplyIsReported ==
  [][ (/\ tick' = tick + 1
       /\ Cardinality(Supply(alive')) * cfg.capacity_per_unit < RequiredTotal) =>
        (\E d \in DomainsActiveSet : HasEvent("unmet_requirements", d))' ]_vars

\* one unit of capacity 1 is alive and three roles are required: it serves,
\* and a domain is reported unmet
C8_Witness ==
  /\ Ticked /\ cfg.capacity_per_unit = 1 /\ RequiredTotal = 3
  /\ Cardinality({u \in Units : AliveGet(alive, u)}) = 1
  /\ assignments # <<>>
  /\ HasEventKind("unmet_requirements")

\* ---- C9 --------------------------------------------------------------------
ClaimBase == (100 * cfg.tick_ms) \div cfg.battery_life_ms
\* battery before the tick (a unit seen for the first time starts at 100)
Pre(u) == IF u \in DOMAIN battery_pct THEN battery_pct[u] ELSE 100
WeightSum(D) == SumOver(D, [d \in D |-> ClaimBase * cfg.domain_weights[d]])

\* C9: after a completed tick, a unit assigned to the domains D has battery
\* max(0, pre - sum of base * weight[d]), an alive, not-dead unit assigned to
\* no domain has min(100, pre + 0.5 * base * weight[rest]), and a resting
\* unit below 100 ends the tick with strictly more battery.
C9_DrainAndRecharge ==
  [][ (tick' = tick + 1 /\ raised' = "none") =>
        \A u \in DOMAIN alive' :
          LET D == {d \in DomainsActiveSet : InSeq(u, assign_map'[d])}
          IN /\ D # {} => battery_pct'[u] = Max2(0, Pre(u) - WeightSum(D))
             /\ (D = {} /\ alive'[u] /\ u \notin battery_dead) =>
                  /\ battery_pct'[u] =
                       Min2(100, Pre(u) + (ClaimBase * cfg.domain_weights[rest_domain]) \div 2)
                  /\ Pre(u) < 100 => battery_pct'[u] > Pre(u) ]_vars

\* a unit that served two domains and still has battery, next to a resting
\* unit that is still below 100 after its recharge
C9_Witness ==
  /\ Completed
  /\ \E u \in Units : /\ Cardinality(DomainsOf(u)) = 2
                      /\ battery_pct[u] > 0 /\ battery_pct[u] < 100
  /\ \E v \in rest_units : battery_pct[v] < 100

\* ---- C10 -------------------------------------------------------------------
\* C10: every battery is within [0, 100]; a tick does not raise the battery
\* of a unit it assigns, and does not lower the battery of a unit that is
\* alive and unassigned.
C10_BatteryRangeAndMonotone ==
  /\ [](\A u \in DOMAIN battery_pct : battery_pct[u] >= 0 /\ battery_pct[u] <= 100)
  /\ [][ tick' = tick + 1 =>
           \A u \in DOMAIN alive' :
             LET D == {d \in DomainsActiveSet : InSeq(u, assign_map'[d])}
             IN /\ D # {} => battery_pct'[u] <= Pre(u)
                /\ (D = {} /\ alive'[u]) => battery_pct'[u] >= Pre(u) ]_vars

\* a resting unit held at 100 by the clamp next to a unit drained to 0
C10_Witness ==
  /\ Completed
  /\ \E u \in rest_units : battery_pct[u] = 100
  /\ \E v \in Units : v \in DOMAIN battery_pct /\ battery_pct[v] = 0

\* ---- C11 -------------------------------------------------------------------
\* the battery_dead events of the last call that name u
DeadEvents(evs, u) ==
  Cardinality({i \in 1..Len(evs) : evs[i].kind = "battery_dead" /\ u \in evs[i].detail})

\* C11: a dead unit has battery 0 and stays dead; a tick leaves a dead unit
\* at 0, out of every assignment list whatever the alive map says, and emits
\* no battery_dead event for it; a completed tick whose drain takes a unit to
\* zero or below sets its battery to 0 and makes it dead; and a tick emits
\* one battery_dead event for each unit it makes dead and none for any
\* other, so that a unit has exactly one over the run.
C11_DeadIsFinal ==
  /\ [](\A u \in battery_dead : u \in DOMAIN battery_pct /\ battery_pct[u] = 0)
  /\ [][ battery_dead \subseteq battery_dead' ]_vars
  /\ [][ tick' = tick + 1 =>
           \A u \in Units :
             LET D == {d \in DomainsActiveSet : InSeq(u, assign_map'[d])}
             IN /\ u \in battery_dead =>
                     /\ D = {} /\ ~InSeq(u, assign_map'[rest_domain])
                     /\ battery_pct'[u] = 0
                /\ (raised' = "none" /\ D # {} /\ Pre(u) - WeightSum(D) <= 0) =>
                     /\ battery_pct'[u] = 0
                     /\ u \in battery_dead'
                /\ DeadEvents(events', u) =
                     IF u \in battery_dead' \ battery_dead THEN 1 ELSE 0 ]_vars

\* a tick after its death a unit is reported alive next to a unit that
\* is assigned: it is still dead at 0, and the call emitted nothing for it
C11_Witness ==
  /\ Completed /\ tick = 3
  /\ \E u \in battery_dead :
       /\ AliveGet(alive, u) /\ battery_pct[u] = 0
       /\ DeadEvents(events, u) = 0
       /\ u \notin rest_units
  /\ assignments # <<>>
  /\ ~HasEventKind("battery_dead")

\* ---- C12 -------------------------------------------------------------------
\* C12: a tick leaves the battery of a unit that its alive map reports down,
\* or does not name, as it was before the tick (100 for a unit the map names
\* for the first time; a unit never named has no battery entry).
C12_DownIsFrozen ==
  [][ tick' = tick + 1 =>
        \A u \in Units :
          ~AliveGet(alive', u) =>
             /\ u \in DOMAIN battery_pct' <=> u \in (DOMAIN battery_pct) \cup (DOMAIN alive')
             /\ u \in DOMAIN battery_pct' => battery_pct'[u] = Pre(u) ]_vars

\* a completed tick that assigns a unit while a unit reported down and a
\* unit left out of the map both hold a battery strictly between 0 and 100
C12_Witness ==
  /\ Completed /\ assignments # <<>>
  /\ \E u \in DOMAIN alive : \E v \in (DOMAIN battery_pct) \ (DOMAIN alive) :
       /\ ~alive[u]
       /\ battery_pct[u] > 0 /\ battery_pct[u] < 100
       /\ battery_pct[v] > 0 /\ battery_pct[v] < 100

\* ---- C13 -------------------------------------------------------------------
\* C13: a second instance in the same prior state, given the same alive map,
\* returns the same assignment list and emits the same sequence of events
\* and the same timeline rows as this one, whatever order its interpreter
\* gives to the loops over sets.
C13_SameInputsSameOutputs ==
  [][ tick' = tick + 1 =>
        \E r \in {TickResult(alive')} :
          /\ raised' = r.raised
          /\ assignments' = r.st.assignments
          /\ r.raised # "none" => events' = r.events_raise /\ timeline' = <<>>
          /\ r.raised = "none" =>
               /\ timeline' = TimelineRows(prev_assign, r.amap)
               /\ \A ord \in IterationOrders(r.low) :
                    events' = EmitForUnits(r.events_dead, ord, "low_battery_active", r.low)
    ]_vars

\* ---- C14 -------------------------------------------------------------------
\* some non-rest domain was last served more than max_gap_ticks ticks ago
SomeGapExceeded ==
  \E d \in DomainsActiveSet : tick - last_service_tick[d] > cfg.max_gap_ticks

\* C14: with strict_mission_failure off no call raises; a call that finds
\* the unmet streak or a domain's gap above max_gap_ticks emits
\* mission_failure and completes like any other: the batteries are updated,
\* the assignment is stored as the previous one, and the next call is
\* scheduled from there.
C14_DemoModeNeverRaises ==
  /\ [](~cfg.strict_mission_failure => raised = "none")
  /\ [][ (tick' = tick + 1 /\ ~cfg.strict_mission_failure) =>
           /\ ((unmet_requirements_streak' > cfg.max_gap_ticks /\ SomeDomainShort')
                 \/ SomeGapExceeded')
                <=> HasEventKind("mission_failure")'
           /\ prev_assign' = assign_map' /\ last_assign_map' = assign_map'
           /\ \A i \in 1..Len(assignments') :
                battery_pct'[assignments'[i][2]] < Pre(assignments'[i][2]) ]_vars

\* demo mode: the third tick finds both the streak and a gap above the
\* limit, emits both mission_failure events, and still assigns and drains
C14_Witness ==
  /\ ~cfg.strict_mission_failure /\ tick = 3 /\ raised = "none"
  /\ unmet_requirements_streak > cfg.max_gap_ticks /\ SomeGapExceeded
  /\ \E i, j \in 1..Len(events) :
       /\ events[i].kind = "mission_failure" /\ events[i].msg = "unmet"
       /\ events[j].kind = "mission_failure" /\ events[j].msg = "GAP_EXCEEDED"
  /\ assignments # <<>>
  /\ \E u \in Units : u \in DOMAIN battery_pct /\ battery_pct[u] < 100 /\ battery_pct[u] > 0

\* ---- C15 -------------------------------------------------------------------
\* the units that can be assigned in the tick that starts now with map al
Assignable(al) ==
  {u \in DOMAIN al : al[u] /\ u \notin battery_dead /\ Pre(u) > 0}

\* C15: with universal roles, as many units in the alive map as roles
\* required and no domain fault, the number of distinct units a tick assigns
\* is min(total required roles, number of assignable units).
C15_DistinctnessTargetMet ==
  [][ (/\ tick' = tick + 1
       /\ cfg.universal_roles /\ cfg.capacity_per_unit >= 1
       /\ Cardinality(DOMAIN alive') = RequiredTotal
       /\ domain_faults = EmptyMap) =>
        Cardinality({assignments'[i][2] : i \in 1..Len(assignments')})
          = Min2(RequiredTotal, Cardinality(Assignable(alive'))) ]_vars

\* universal roles, three units for three roles, no fault ever set, one
\* unit down: the two assignable units are both assigned, one of them twice
C15_Witness ==
  /\ Ticked /\ cfg.universal_roles /\ cfg.capacity_per_unit = 2
  /\ Cardinality(DOMAIN alive) = RequiredTotal /\ RequiredTotal = 3
  /\ fault_calls = 0
  /\ Cardinality({u \in DOMAIN alive : alive[u]}) = 2
  /\ Len(assignments) = 3
  /\ Cardinality({assignments[i][2] : i \in 1..Len(assignments)}) = 2

\* ---- C16 -------------------------------------------------------------------
InPoolOf(u, d) == InSeq(u, cfg.pools[d]) \/ InSeq(u, cfg.pools["spares"])

\* C16: in pool mode a unit assigned to d is listed in pool[d] or in the
\* spares; with universal roles the pools are not consulted: a domain is
\* left short only when every alive, not-dead unit with battery that is not
\* faulted for it already serves it or has no capacity left.
C16_PoolsRestrictOnlyInPoolMode ==
  [][ tick' = tick + 1 =>
        \A d \in DomainsActiveSet :
          /\ ~cfg.universal_roles =>
               \A i \in 1..Len(assign_map'[d]) : InPoolOf(assign_map'[d][i], d)
          /\ (cfg.universal_roles /\ Len(assign_map'[d]) < cfg.required_map[d]) =>
               \A u \in Units :
                 Eligible(u, d, alive') =>
                   \/ InSeq(u, assign_map'[d])
                   \/ Cardinality({e \in DomainsActiveSet : InSeq(u, assign_map'[e])})
                        = cfg.capacity_per_unit ]_vars

\* pool mode with spares: a domain is left short although a unit that
\* neither its pool nor the spares list is alive, serves another domain and
\* has capacity left
C16_Witness ==
  /\ Ticked /\ ~cfg.universal_roles /\ cfg.pools["spares"] # <<>>
  /\ \E d \in DomainsActiveSet : \E v \in Units :
       /\ Len(assign_map[d]) < cfg.required_map[d]
       /\ ~InPoolOf(v, d)
       /\ AliveGet(alive, v) /\ battery_pct[v] > 0
       /\ Cardinality(DomainsOf(v)) = 1 /\ cfg.capacity_per_unit = 2

\* ---- C17 -------------------------------------------------------------------
\* the fault recorded for the pair k holds on tick t: permanent, or set at
\* time T with duration D and time_ms(t) < T + D (recover_at is T + D)
HoldsAt(k, t) ==
  domain_faults[k].permanent \/ t * cfg.tick_ms < domain_faults[k].recover_at

\* C17: a tick assigns no unit to a domain for which it has a fault that
\* holds at that tick, and keeps the fault; a fault takes a unit out of no
\* other domain and, once it no longer holds, not out of its own: a domain is
\* left short only when every eligible unit serves it or has no capacity
\* left.  A tick removes only temporary faults that no longer hold; a fault
\* set at time T with duration D recovers at T + D; and apart from a call
\* that sets the same pair again, only clear_all_domain_faults() ends a
\* fault that holds.
C17_FaultLifetime ==
  /\ [][ tick' = tick + 1 =>
           /\ \A k \in DOMAIN domain_faults :
                /\ HoldsAt(k, tick') =>
                     /\ ~InSeq(k[1], assign_map'[k[2]])
                     /\ k \in DOMAIN domain_faults'
                     /\ domain_faults'[k] = domain_faults[k]
                /\ k \in DOMAIN domain_faults' => domain_faults'[k] = domain_faults[k]
           /\ DOMAIN domain_faults' \subseteq DOMAIN domain_faults
           /\ \A d \in DomainsActiveSet : \A u \in Units :
                (Len(assign_map'[d]) < cfg.required_map[d] /\ Eligible(u, d, alive')) =>
                   \/ InSeq(u, assign_map'[d])
                   \/ Cardinality({e \in DomainsActiveSet : InSeq(u, assign_map'[e])})
                        = cfg.capacity_per_unit ]_vars
  /\ [][ tick' = tick =>
           \/ domain_faults' = EmptyMap
           \/ \E k \in FaultTargets :
                /\ k \in DOMAIN domain_faults'
                /\ \/ domain_faults'[k].permanent
                   \/ \E dur \in FaultDurations :
                        domain_faults'[k].recover_at = tick * cfg.tick_ms + dur
                /\ \A j \in (DOMAIN domain_faults) \ {k} :
                     j \in DOMAIN domain_faults' /\ domain_faults'[j] = domain_faults[j]
                /\ DOMAIN domain_faults' = (DOMAIN domain_faults) \cup {k} ]_vars

\* a temporary fault holds on this tick: its unit serves the other domain
\* and not the faulted one, which is left short
C17_Witness ==
  /\ Ticked
  /\ \E k \in DOMAIN domain_faults : \E e \in DomainsActiveSet :
       /\ ~domain_faults[k].permanent
       /\ tick * cfg.tick_ms < domain_faults[k].recover_at
       /\ e # k[2]
       /\ InSeq(k[1], assign_map[e])
       /\ ~InSeq(k[1], assign_map[k[2]])
       /\ Len(assign_map[k[2]]) < cfg.required_map[k[2]]

\* ---- C18 -------------------------------------------------------------------
\* the units of strict(d) (gate) or override(d) (no gate) of the tick that
\* starts now when no fault is counted: reported alive, not dead, with
\* battery, in pool mode listed for d, and for strict(d) not resting below
\* the wake threshold
Untainted(d, gate) ==
  { u \in DOMAIN alive' :
      /\ alive'[u] /\ u \notin battery_dead /\ Pre(u) > 0
      /\ cfg.universal_roles \/ InPoolOf(u, d)
      /\ gate => ~(/\ u \in DOMAIN resting_since_tick
                   /\ Pre(u) < Min2(100, battery_reserve_pct + cfg.hysteresis_pct)) }

\* C18: clear_all_domain_faults() leaves no fault, whatever was set before,
\* and a tick that starts with no fault computes strict(d) and override(d)
\* as the untainted sets.
C18_ClearUntaints ==
  /\ [](last_call = "clear_all_domain_faults" => domain_faults = EmptyMap)
  /\ [][ (tick' = tick + 1 /\ domain_faults = EmptyMap) =>
           \A d \in DomainsActiveSet :
             cfg.required_map[d] > 0 =>
               /\ SeqToSet(strict_list'[d]) = Untainted(d, TRUE)
               /\ SeqToSet(override_list'[d]) = Untainted(d, FALSE) ]_vars

\* a fault was set and cleared before the first tick, which has full
\* liveness: every unit is in strict(d) of every domain
C18_Witness ==
  /\ tick = 1 /\ fault_calls = 1 /\ domain_faults = EmptyMap
  /\ DOMAIN alive = Units /\ \A u \in Units : alive[u]
  /\ cfg.universal_roles
  /\ \A d \in DomainsActiveSet : cfg.required_map[d] > 0 /\ SeqToSet(strict_list[d]) = Units

\* ---- C19 -------------------------------------------------------------------
\* C19: the rest entry of a completed tick lists, in ascending order, the
\* units reported alive and not dead that serve no non-rest domain; these
\* units end the tick with at least the battery they had, more if below
\* 100; the returned list never names the rest domain; and the rest domain
\* is not gap-tracked, is never reported unmet or failed, and does not count
\* for the unmet streak.
C19_RestIsReportingOnly ==
  /\ [](/\ \A i \in 1..Len(assignments) : assignments[i][1] # rest_domain
        /\ rest_domain \notin DOMAIN last_service_tick
        /\ ~HasEvent("unmet_requirements", rest_domain)
        /\ ~HasEvent("mission_failure", rest_domain))
  /\ [][ (tick' = tick + 1 /\ raised' = "none") =>
           LET rl == assign_map'[rest_domain]
           IN /\ SeqToSet(rl) =
                   { u \in DOMAIN alive' :
                       /\ alive'[u] /\ u \notin battery_dead
                       /\ \A d \in DomainsActiveSet : ~InSeq(u, assign_map'[d]) }
              /\ \A i, j \in 1..Len(rl) : i < j => UnitRank[rl[i]] < UnitRank[rl[j]]
              /\ \A i \in 1..Len(rl) :
                   /\ battery_pct'[rl[i]] >= Pre(rl[i])
                   /\ Pre(rl[i]) < 100 => battery_pct'[rl[i]] > Pre(rl[i])
              /\ unmet_requirements_streak' =
                   IF SomeDomainShort' THEN unmet_requirements_streak + 1 ELSE 0 ]_vars

\* a completed tick in which every non-rest domain is met, the streak is 0,
\* and two units rest, listed in order, one of them recharging below 100
C19_Witness ==
  /\ Completed /\ ~SomeDomainShort /\ unmet_requirements_streak = 0
  /\ Len(assign_map[rest_domain]) = 2
  /\ \E i \in 1..2 : battery_pct[assign_map[rest_domain][i]] < 100
  /\ assignments # <<>>

\* the arguments the contract rejects: a negative requirement, a non-positive
\* tick length or gap limit, a pool that names an unknown unit
ConfigurationErrorExpected(c) ==
  \/ \E d \in DOMAIN c.required_map : c.required_map[d] < 0
  \/ c.tick_ms <= 0
  \/ c.max_gap_ticks <= 0
  \/ \E p \in DOMAIN c.pools : \E i \in 1..Len(c.pools[p]) : c.pools[p][i] \notin Units

\* C20: a scheduler built from a configuration with a negative requirement,
\* a non-positive tick_ms or gap limit, or a pool naming an unknown unit never
\* schedules a tick: construction ends in a configuration error.
C20_NoTickOnInvalidConfiguration ==
  ConfigurationErrorExpected(cfg) => /\ tick = 0
                                     /\ last_call # "schedule_tick"

\* ---- C21 -------------------------------------------------------------------
\* scenario 3 as written: u1 was served on ticks 1..4 and is down since tick 5
Scenario3DownAtFive ==
  /\ cfg = Scenario3Config
  /\ tick >= 5 /\ alive = [u \in {"u1"} |-> FALSE]
  /\ last_service_tick["radar"] = 4
\* the events of the last call hold unmet_requirements for radar, then
\* mission_failure, which is the last event
UnmetThenFailure ==
  /\ events # <<>> /\ events[Len(events)].kind = "mission_failure"
  /\ \E i \in 1..Len(events) :
       /\ events[i].kind = "unmet_requirements" /\ "radar" \in events[i].detail
       /\ \A j \in 1..i : events[j].kind # "mission_failure"

\* C21 as stated: ticks 5..15 emit unmet_requirements without raising and
\* tick 16 is the tick that emits mission_failure and raises.
C21_Original ==
  Scenario3DownAtFive =>
    /\ tick \in 5..15 => /\ raised = "none"
                         /\ HasEvent("unmet_requirements", "radar")
                         /\ ~HasEventKind("mission_failure")
    /\ tick = 16 => raised # "none" /\ UnmetThenFailure

\* C21 (amended): in scenario 3 with u1 alive on ticks 1..4 and down from
\* tick 5 on, ticks 5..14 each emit unmet_requirements without raising, and
\* tick 15, whose streak is max_gap_ticks + 1 = 11, emits mission_failure
\* after unmet_requirements and raises; no tick follows.
C21_Scenario3RaisesAtFifteen ==
  Scenario3DownAtFive =>
    /\ tick <= 15
    /\ unmet_requirements_streak = tick - 4
    /\ tick \in 5..14 => /\ raised = "none"
                         /\ HasEvent("unmet_requirements", "radar")
                         /\ ~HasEventKind("mission_failure")
    /\ tick = 15 => raised = "streak" /\ UnmetThenFailure

\* the raising tick of scenario 3
C21_Witness ==
  /\ Scenario3DownAtFive /\ tick = 15 /\ raised = "streak"
  /\ unmet_requirements_streak = 11 /\ UnmetThenFailure

\* ---- C22 -------------------------------------------------------------------
\* the unit assigned to both a and b by the last call, if any
DoubledUnits == {u \in Units : InSeq(u, assign_map["a"]) /\ InSeq(u, assign_map["b"])}

\* C22 as stated: on every tick of scenario 6 exactly one unit is assigned
\* to both a and b, so multi_role_ticks equals the number of ticks.
C22_Original ==
  (Scenario6Faulted /\ Completed) =>
    /\ Cardinality(DoubledUnits) = 1
    /\ ticks_multi_role = tick

\* C22 (amended): in scenario 6 u3 is never assigned; on every tick that u1
\* and u2 both start with battery, a and b get one unit each, two distinct
\* units (Tier B takes the unused one, Tier D is not used) and
\* multi_role_ticks does not advance; a unit is assigned to both domains
\* only on ticks that start after the other one has died.
C22_Scenario6StaysDistinct ==
  /\ [](\A d \in DomainSet : ~InSeq("u3", assign_map[d]) \/ d = rest_domain)
  /\ [](ticks_multi_role > 0 => battery_dead # {})
  /\ [][ (tick' = tick + 1 /\ raised' = "none") =>
           IF battery_dead = {}
           THEN /\ Len(assign_map'["a"]) = 1 /\ Len(assign_map'["b"]) = 1
                /\ {assign_map'["a"][1], assign_map'["b"][1]} = {"u1", "u2"}
                /\ ticks_multi_role' = ticks_multi_role
                /\ ~HasEventKind("unmet_requirements")'
           ELSE /\ \A d \in DomainsActiveSet : assign_map'[d] = SortedUnits({"u1", "u2"} \ battery_dead)
                /\ battery_dead # {"u1", "u2"} => ticks_multi_role' = ticks_multi_role + 1 ]_vars

\* a rotation has passed, u1 and u2 still serve one domain each and no tick
\* was a multi-role tick
C22_Witness ==
  /\ Scenario6Faulted /\ Completed /\ tick >= 4
  /\ Len(assign_map["a"]) = 1 /\ Len(assign_map["b"]) = 1
  /\ assign_map["a"] # assign_map["b"]
  /\ assign_map[rest_domain] = <<"u3">>
  /\ ticks_multi_role = 0

\* ---- C23 -------------------------------------------------------------------
\* the rows the last call wrote for domain d
RowsFor(tl, d) == {i \in 1..Len(tl) : tl[i][1] = d}

\* C23: a call writes a timeline row for domain d if and only if it returns
\* and d's list differs from d's list at the previous completed tick (empty
\* before the first); the row is single and carries the new list.
C23_TimelineRowIffChanged ==
  [][ tick' = tick + 1 =>
        \A d \in DomainSet :
          /\ (RowsFor(timeline', d) # {}) <=>
                (raised' = "none" /\ assign_map'[d] # last_assign_map[d])
          /\ Cardinality(RowsFor(timeline', d)) <= 1
          /\ \A i \in RowsFor(timeline', d) : timeline'[i][2] = assign_map'[d] ]_vars

\* a later tick that changed one non-rest domain's list and left the other,
\* non-empty, as it was
C23_Witness ==
  /\ Completed /\ tick >= 2
  /\ \E d, e \in DomainsActiveSet :
       /\ RowsFor(timeline, d) # {}
       /\ RowsFor(timeline, e) = {} /\ assign_map[e] # <<>>

\* ---- C24 -------------------------------------------------------------------
\* C24 as stated: at the end of every tick a dead unit has battery 0 and is
\* in no list of last_assign_map, the tick at which it died included.
C24_Original ==
  Ticked =>
    \A u \in battery_dead :
      /\ battery_pct[u] = 0
      /\ \A d \in DomainSet : ~InSeq(u, last_assign_map[d])

\* C24 (amended): at the end of every tick every dead unit has battery 0; in
\* the assignment map of a completed tick a unit that was dead when the tick
\* started appears in no domain, and a unit that died on this tick appears
\* in the non-rest domains whose drain exhausted it (its death is found
\* after the assignment) and not in the rest list.
C24_DeadAtZeroAndOutAfterDeathTick ==
  /\ [](\A u \in battery_dead : u \in DOMAIN battery_pct /\ battery_pct[u] = 0)
  /\ [][ (tick' = tick + 1 /\ raised' = "none") =>
           \A u \in battery_dead' :
             IF u \in battery_dead
             THEN \A d \in DomainSet : ~InSeq(u, last_assign_map'[d])
             ELSE /\ \E d \in DomainsActiveSet : InSeq(u, last_assign_map'[d])
                  /\ ~InSeq(u, last_assign_map'[rest_domain])
                  /\ Pre(u) > 0 ]_vars

\* the end of a tick on which a unit died while another had died before
C24_Witness ==
  /\ Completed
  /\ \E u, v \in battery_dead :
       /\ \E d \in DomainsActiveSet : InSeq(u, last_assign_map[d])
       /\ battery_pct[u] = 0
       /\ \A d \in DomainSet : ~InSeq(v, last_assign_map[d])
       /\ AliveGet(alive, v)

\* ---- C25 -------------------------------------------------------------------
\* the units the last call had used before its i-th pair
UsedBefore(i) == {assignments[j][2] : j \in 1..(i - 1)}
\* the i-th pair of the last call gives its domain a unit that an earlier
\* domain of the same call holds
DoubledUp(i) ==
  \E j \in 1..(i - 1) : /\ assignments[j][2] = assignments[i][2]
                         /\ assignments[j][1] # assignments[i][1]

\* C25: a unit already used by an earlier domain of the tick is given to
\* domain d only when every unit of override(d) has been used in this tick
\* by then: unused candidates, resting units below the wake threshold
\* included, are taken before any unit is doubled up.
C25_DoubleUpOnlyWhenNoUnusedLeft ==
  \A i \in 1..Len(assignments) :
    DoubledUp(i) => SeqToSet(override_list[assignments[i][1]]) \subseteq UsedBefore(i)

\* a tick in which a domain woke a resting unit below the wake threshold
\* (Tier C) although a unit of an earlier domain had capacity left for it
C25_Witness ==
  /\ Ticked /\ cfg.capacity_per_unit = 2
  /\ \E i \in 1..Len(assignments) :
       /\ HasEvent("distinctness_wake", assignments[i][1])
       /\ ~InSeq(assignments[i][2], strict_list[assignments[i][1]])
       /\ ~DoubledUp(i)
       /\ \E v \in SeqToSet(strict_list[assignments[i][1]]) :
            v \in UsedBefore(i) /\ Cardinality(DomainsOf(v)) = 1

\* ---- C26 -------------------------------------------------------------------
\* the place of a domain name in lexicographic order
NameRank(d) == CASE d = "a" -> 1 [] d = "b" -> 2 [] d = "radar" -> 3 [] OTHER -> 4
\* d1 is processed before d2 by a tick that starts now: earlier deadline,
\* or the same deadline and the smaller name
ProcessedBefore(d1, d2) ==
  \/ last_service_tick[d1] + cfg.max_gap_ticks < last_service_tick[d2] + cfg.max_gap_ticks
  \/ /\ last_service_tick[d1] + cfg.max_gap_ticks = last_service_tick[d2] + cfg.max_gap_ticks
     /\ NameRank(d1) < NameRank(d2)

RestedLow(u) ==
  /\ Completed
  /\ AliveGet(alive, u) /\ u \notin battery_dead
  /\ \A d \in DomainsActiveSet : ~InSeq(u, assign_map[d])
  /\ u \in DOMAIN battery_pct /\ battery_pct[u] < wake_threshold_pct
\* the last call took an override path for d
OverridePath(d) ==
  \/ HasEvent("wake_override", d)
  \/ HasEvent("distinctness_wake", d)
  \/ HasEvent("wake_override_used", d)

\* C27: a unit that was alive and unassigned on the previous (completed)
\* tick and whose battery is below wake_threshold_pct is not in strict(d),
\* and the tick assigns it to d only when it emits wake_override,
\* distinctness_wake or wake_override_used for d.
C27_WakeHysteresis ==
  [][ tick' = tick + 1 =>
        \A u \in Units : \A d \in DomainsActiveSet :
          RestedLow(u) =>
            /\ ~InSeq(u, strict_list'[d])
            /\ InSeq(u, assign_map'[d]) => OverridePath(d)' ]_vars

\* a unit that rested on the tick before was below the wake threshold when
\* the last tick started and was left asleep: strict(d) left it out,
\* override(d) had it, and another unit serves d
C27_Witness ==
  /\ Completed
  /\ \E u \in Units : \E d \in DomainsActiveSet :
       /\ u \in DOMAIN resting_since_tick /\ resting_since_tick[u] < tick
       /\ InSeq(u, override_list[d]) /\ ~InSeq(u, strict_list[d])
       /\ assign_map[d] # <<>> /\ ~InSeq(u, assign_map[d])
       /\ InSeq(u, assign_map[rest_domain])
       /\ ~OverridePath(d)

\* ---- C28 -------------------------------------------------------------------
\* the call that starts now with alive map al finds u recovered: the last
\* call had it down, al has it alive, it is not dead and its battery, frozen
\* while it was down, is below the wake threshold
RecoversLow(u, al) ==
  /\ tick > 0
  /\ u \in DOMAIN alive /\ ~alive[u]
  /\ AliveGet(al, u) /\ u \notin battery_dead
  /\ u \in DOMAIN battery_pct
  /\ battery_pct[u] > 0 /\ battery_pct[u] < wake_threshold_pct

\* C28: a unit whose liveness recovers re-enters as a resting unit: on the
\* recovery tick a recovered unit with battery below wake_threshold_pct is
\* excluded from strict(d), whether it was active or resting before it went
\* down.
C28_RecoveredUnitIsGated ==
  [][ tick' = tick + 1 =>
        \A u \in Units : \A d \in DomainsActiveSet :
          RecoversLow(u, alive') => ~InSeq(u, strict_list'[d]) ]_vars

\* ---- C29 -------------------------------------------------------------------
\* u holds d since the last completed tick, is inside its dwell window when
\* the tick that starts now with alive map al runs, is alive, not faulted
\* for d and above the swap threshold
InDwellWindow(u, d, al) ==
  /\ Completed
  /\ InSeq(u, prev_assign[d])
  /\ AliveGet(al, u) /\ u \notin battery_dead
  /\ ~domain_fault_active(u, d, time_ms(tick + 1), domain_faults)
  /\ u \in DOMAIN active_since_tick
  /\ (tick + 1) - active_since_tick[u] < cfg.min_dwell_ticks
  /\ battery_pct[u] > swap_threshold_pct

\* C29 as stated: on a non-rotation tick a unit that was assigned to d on
\* the previous tick, is still alive and not faulted for d, has been active
\* for fewer than min_dwell_ticks ticks and has battery above
\* swap_threshold_pct is assigned to d again.
C29_Original ==
  [][ (tick' = tick + 1 /\ ~is_rotation_tick(tick + 1)) =>
        \A u \in Units : \A d \in DomainsActiveSet :
          InDwellWindow(u, d, alive') => InSeq(u, assign_map'[d]) ]_vars

\* a domain other than d, whose pairs precede those of d in the list the
\* call returns, holds u
TakenEarlier(u, d, asg) ==
  \E i \in 1..Len(asg) :
    /\ asg[i][2] = u /\ asg[i][1] # d
    /\ \A j \in 1..Len(asg) : asg[j][1] = d => i < j

\* C29 (amended): on a non-rotation tick a unit that was assigned to d on the
\* previous tick, is still alive and not faulted for d, has been active for
\* fewer than min_dwell_ticks ticks and has battery above swap_threshold_pct
\* stays active: it is assigned to d again unless a domain processed
\* earlier in the tick has taken it, and then it serves that domain.
C29_DwellWindowKeepsUnitActive ==
  [][ (tick' = tick + 1 /\ ~is_rotation_tick(tick + 1)) =>
        \A u \in Units : \A d \in DomainsActiveSet :
          InDwellWindow(u, d, alive') =>
            \/ InSeq(u, assign_map'[d])
            \/ TakenEarlier(u, d, assignments') ]_vars

\* a non-rotation tick kept a unit in its second active tick on its domain
\* although a rested unit with more battery was a candidate
C29_Witness ==
  /\ Completed /\ ~HasEventKind("rotation")
  /\ \E u, v \in Units : \E d \in DomainsActiveSet :
       /\ u \in DOMAIN active_since_tick /\ active_since_tick[u] = tick - 1
       /\ assign_map[d] = <<u>> /\ RowsFor(timeline, d) = {}
       /\ InSeq(v, strict_list[d]) /\ InSeq(v, assign_map[rest_domain])
       /\ battery_pct[v] > battery_pct[u] + 2 * drain_per_role_pct

\* ---- C30 -------------------------------------------------------------------
\* the place of x in the sequence s (0 when absent)
IndexIn(x, s) == IF InSeq(x, s) THEN CHOOSE i \in 1..Len(s) : s[i] = x ELSE 0
\* in the tick that starts now, a domain processed before d takes u
\* (amap the tick's assignment map)
UsedWhenProcessed(u, d, amap) ==
  LET od == SortDomains(domains_active, last_service_tick, tick + 1)
  IN \E k \in 1..Len(od) : k < IndexIn(d, od) /\ InSeq(u, amap[od[k]])
\* u held d on the previous tick, has battery above the swap threshold, is
\* in strict(d) of the tick that starts now (sl its strict lists) and is
\* unused when d is processed
KeepableIncumbent(u, d, sl, amap) ==
  /\ InSeq(u, prev_assign[d])
  /\ u \in DOMAIN battery_pct /\ battery_pct[u] > swap_threshold_pct
  /\ InSeq(u, sl[d])
  /\ ~UsedWhenProcessed(u, d, amap)
\* exactly one non-rest domain requires units
OneDomain == Cardinality({d \in DomainsActiveSet : Required(d) > 0}) = 1

TickCx(al) ==
  TickContext(al, ensure_battery_initialized(battery_pct, DOMAIN al), SortedUnits(DOMAIN al))
\* the loop state of that tick when it reaches domain d
StateBefore(d, al) ==
  LET od == SortDomains(domains_active, last_service_tick, tick + 1)
  IN DomainLoop(SubSeq(od, 1, IndexIn(d, od) - 1), LoopStart(TickCx(al)), TickCx(al))
\* the keep candidates of d in that tick (ov the tick's override lists)
KeepOf(d, al, ov) ==
  KeepCandidates(d, ov[d], is_rotation_tick(tick + 1),
                 UNION {SeqToSet(prev_assign[x]) : x \in DomainSet},
                 TickCx(al).bat, tick + 1)
\* the score by which that tick sorts u among the candidates of d
ScoreInLoop(u, d, al, ov) ==
  score_unit(u, u \in KeepOf(d, al, ov), is_rotation_tick(tick + 1),
             TickCx(al).bat, StateBefore(d, al).last_assigned_tick, tick + 1)
\* u was assigned on the tick before the one that starts now
AssignedOnPreviousTick(u) ==
  u \in DOMAIN last_assigned_tick /\ last_assigned_tick[u] = tick
\* the score of u for d with the terms as the rotation rule states them:
\* battery, cooldown, the penalty rot_pen and the bonus keep_bon
StatedScore(u, d, al, rot_pen, keep_bon) ==
  BatGet(TickCx(al).bat, u) * rotation_ticks
  + cooldown_weight * cooldown_age_norm(u, StateBefore(d, al).last_assigned_tick, tick + 1)
  - rot_pen * rotation_ticks
  + keep_bon * rotation_ticks
\* the tick that starts now is a rotation tick by the rule of the claim
RotationDue ==
  /\ cfg.rotation_period_ms > 0
  /\ (tick + 1) * cfg.tick_ms - last_rotation_ms >= cfg.rotation_period_ms

\* C31: a rotation event is emitted on tick t exactly when rotation_period_ms
\* > 0 and time_ms(t) minus the time of the previous rotation tick (0 before
\* the first) is at least rotation_period_ms; on a rotation tick no unit is
\* a keep candidate (Tier A is skipped, keep_bonus is not added) and the
\* units assigned on tick t-1 are penalised by rotation_weight, while on
\* other ticks that penalty is zero.
C31_RotationTickRule ==
  [][ tick' = tick + 1 =>
        /\ (\E i \in 1..Len(events') : events'[i].kind = "rotation") <=> RotationDue
        /\ last_rotation_ms' = IF RotationDue THEN (tick + 1) * cfg.tick_ms
                                ELSE last_rotation_ms
        /\ \A d \in DomainsActiveSet : \A u \in SeqToSet(override_list'[d]) :
              IF RotationDue
              THEN /\ KeepOf(d, alive', override_list') = {}
                   /\ ScoreInLoop(u, d, alive', override_list')
                        = StatedScore(u, d, alive',
                            IF AssignedOnPreviousTick(u) THEN rotation_weight ELSE 0, 0)
              ELSE ScoreInLoop(u, d, alive', override_list')
                     = StatedScore(u, d, alive', 0,
                         IF u \in KeepOf(d, alive', override_list') THEN keep_bonus ELSE 0)
      ]_vars

\* ---- C32 -------------------------------------------------------------------
\* C32: after every tick, last_service_tick[d] is the most recent tick on
\* which d's requirement was fully met: a tick sets it to the current tick
\* when the number of units assigned to d equals required_active[d], and
\* leaves it alone when d is only partly filled or not filled at all.
C32_ServiceTickOnlyWhenFullyMet ==
  [][ tick' = tick + 1 =>
        \A d \in DomainsActiveSet :
          /\ last_service_tick'[d] \in {last_service_tick[d], tick + 1}
          /\ last_service_tick'[d] = tick + 1 => Len(assign_map'[d]) = Required(d)
          /\ (Required(d) > 0 /\ Len(assign_map'[d]) = Required(d))
               => last_service_tick'[d] = tick + 1 ]_vars

\* ---- C33 -------------------------------------------------------------------
\* the map amap of a tick leaves the requirement of d unmet
UnmetIn(d, amap) == Required(d) > 0 /\ Len(amap[d]) < Required(d)

\* C33: MissionFailure is raised, and mission_failure emitted, only if some
\* single non-rest domain has had its requirement unmet on more than
\* max_gap_ticks consecutive ticks; a run in which every domain is met at
\* least once in every window of max_gap_ticks + 1 ticks never fails.  Stated
\* for the missions with max_gap_ticks = 1, where the window is the tick that
\* fails and the tick before it (assign_map is the map of the call before).
C33_FailureOnlyOnPerDomainGap ==
  [][ ( /\ tick' = tick + 1
        /\ cfg.max_gap_ticks = 1
        /\ \/ raised' # "none"
           \/ \E i \in 1..Len(events') : events'[i].kind = "mission_failure" )
      => /\ tick >= 1
         /\ \E d \in DomainsActiveSet :
              UnmetIn(d, assign_map) /\ UnmetIn(d, assign_map') ]_vars

\* ---- C34 -------------------------------------------------------------------
\* C34: a non-rest domain whose required_active is 0 is never assigned a
\* unit, is never reported unmet, and never causes a mission_failure event
\* or a MissionFailure raise, however many ticks are run.
C34_ZeroRequirementNeverFails ==
  \A d \in DomainsActiveSet :
    Required(d) = 0 =>
      /\ assign_map[d] = <<>>
      /\ ~HasEvent("unmet_requirements", d)
      /\ ~HasEvent("mission_failure", d)

\* ---- C35 -------------------------------------------------------------------
\* the sum of the requirements the mapping gives to the non-rest domains
MappedRequiredRoles ==
  LET ds == DomainsActiveSet \cap DOMAIN cfg.required_map
  IN SumOver(ds, [d \in ds |-> cfg.required_map[d]])

\* C35: when required_active_per_domain is a mapping, a non-rest domain that
\* is missing from the mapping has requirement 0: the scheduler assigns no
\* unit to it, does not count it in total_required_roles, and never reports
\* it unmet.
C35_MissingKeyMeansZero ==
  Ticked =>
    /\ total_required_roles = MappedRequiredRoles
    /\ \A d \in DomainsActiveSet \ DOMAIN cfg.required_map :
         /\ assign_map[d] = <<>>
         /\ ~HasEvent("unmet_requirements", d)

\* ---- C36 -------------------------------------------------------------------
\* C36: the streak check and the per-domain gap check are reconciled into
\* one failure signal: the events of a tick hold at most one mission_failure
\* event (and a call raises at most once), in strict mode and in non-strict
\* mode alike.
C36_OneFailureSignalPerTick ==
  Cardinality({i \in 1..Len(events) : events[i].kind = "mission_failure"}) <= 1

\* ---- C37 -------------------------------------------------------------------
\* C37: a schedule_tick call that raises MissionFailure applies no drain and
\* no recharge for that tick (every battery value is what it was before the
\* call, and a unit the call sees for the first time is at its initial 100)
\* and leaves prev_assign, last_assign_map, rest_units and the dead set as
\* they were after the previous tick, while the tick counter has advanced by
\* one; battery values change only in calls that return normally.
C37_RaiseLeavesBatteriesAndHistory ==
  [][ /\ (tick' # tick /\ raised' # "none") =>
           /\ tick' = tick + 1
           /\ prev_assign' = prev_assign
           /\ last_assign_map' = last_assign_map
           /\ rest_units' = rest_units
           /\ battery_dead' = battery_dead
           /\ \A u \in DOMAIN battery_pct' :
                battery_pct'[u] = IF u \in DOMAIN battery_pct THEN battery_pct[u] ELSE 100
      /\ (\E u \in DOMAIN battery_pct : battery_pct'[u] # battery_pct[u]) =>
           (tick' = tick + 1 /\ raised' = "none") ]_vars

\* a call raised after assigning an alive unit to a domain it did not hold
\* on the previous tick, while another alive unit was left without a role:
\* the first would have drained, the second recharged
C37_Witness ==
  /\ raised # "none" /\ tick > 1
  /\ \E u, v \in Units : \E d \in DomainsActiveSet :
       /\ InSeq(u, assign_map[d]) /\ ~InSeq(u, prev_assign[d])
       /\ is_alive(v, alive) /\ v \in DOMAIN battery_pct /\ battery_pct[v] < 100
       /\ \A x \in DomainsActiveSet : ~InSeq(v, assign_map[x])
       /\ v \notin rest_units

\* ---- C38 -------------------------------------------------------------------
\* C38: in every battery sample block, each unit's state is 'dead' if it is
\* dead, otherwise 'down' if it is not alive, otherwise 'active' if it is
\* assigned to at least one non-rest domain on the sampled tick, otherwise
\* 'rest'; and the sampled actual_distinct counts the units assigned to
\* non-rest domains.
C38_SampleStateByAssignment ==
  \A k \in 1..Len(samples) :
    /\ \A i \in 1..Len(samples[k].battery) :
         LET u == samples[k].battery[i].unit
         IN samples[k].battery[i].state =
              IF u \in battery_dead THEN "dead"
              ELSE IF ~AliveGet(alive, u) THEN "down"
              ELSE IF DomainsOf(u) # {} THEN "active"
              ELSE "rest"
    /\ samples[k].actual_distinct = Cardinality({u \in Units : DomainsOf(u) # {}})

\* ---- C39 -------------------------------------------------------------------
\* C39: the drivers derive the gap window as max_gap_ticks =
\* ceiling(max_gap_ms / tick_ms): for every positive max_gap_ms and tick_ms
\* the scheduler they run has max_gap_ticks * tick_ms >= max_gap_ms, also
\* when max_gap_ms is not a multiple of tick_ms.
C39_GapWindowIsCeiling ==
  Ticked =>
    /\ cfg.max_gap_ticks = (cfg.max_gap_ms + cfg.tick_ms - 1) \div cfg.tick_ms
    /\ cfg.max_gap_ticks * cfg.tick_ms >= cfg.max_gap_ms

====
